---- MODULE Spec2Model ----
(***************************************************************************)
(* The orchestration engine of src/engine: the root planner loop           *)
(* (planner.py), the bounded worker pool (worker.py) and the recursive     *)
(* sub-planner (subplanner.py), as one state machine.  Every coroutine is  *)
(* a process whose steps are the code between two suspension points        *)
(* (await of an LLM call, of the semaphore, of a sleep).                   *)
(***************************************************************************)
EXTENDS Integers, Sequences, FiniteSets, TLC

\* ------------------------------------------------------------------ bounds
\* Size of one run: processes (root tasks, fix tasks and subtasks) spawned plus
\* disruptions (see Disrupt).
MaxLoad == 4
\* Raw tasks in one LLM planning response.
MaxPlanLen == 2
\* Largest max_workers configuration explored (0..MaxWorkersCfg).
MaxWorkersCfg == 2
\* Largest max_planner_iterations configuration explored.
MaxIterationsCfg == 6
\* Raw tasks the root planning LLM proposes in one run, re-proposals included.
MaxProposals == 5
\* Disruptions of one run (see Disrupt).
MaxFaults == 1
\* Rounds a sub-planner has behind it where a long decomposition is followed.
DecomposedSoFar == 19
\* Subscribers of the event bus, and bus operations followed.
MaxSubscribers == 2
MaxBusOps == 5
\* Events one caller emits back to back when it floods the bus.
Backlog == 998
\* Characters of the content of a file operation; characters between the two
\* fences of a fenced content.
MaxContentLen == 2
MaxFencedLen == 1
\* Tokens a response text may lack at its end.
MaxCut == 4
\* Plan calls of the root planner that return, when its file tree delta is
\* followed.
MaxDeltaPlans == 3
\* lengths in characters of a short and of a long message (a conversation
\* holds at most one long message at a time), and the plan calls followed
SmallChars == 1000
LargeChars == 200000
MaxConvPlans == 8
\* a run of the conversation sees at most so many failed calls and nudges
MaxConvFaults == 2
\* the plans of one parent whose subtask ids are followed
MaxRounds == 3

\* ------------------------------------------------------- program constants
MIN_HANDOFFS_FOR_REPLAN == 3
MAX_CONSECUTIVE_ERRORS == 10
MAX_EMPTY_PLAN_NUDGES == 3
BACKOFF_BASE_MS == 2000
BACKOFF_MAX_MS == 30000
CONVERSATION_COMPACTION_CHARS == 200000
MAX_DEPTH == 3
SCOPE_THRESHOLD == 4
MAX_SUBTASKS == 10
SUB_MIN_HANDOFFS_FOR_REPLAN == 1
SUB_MAX_CONSECUTIVE_ERRORS == 5
QUEUE_MAXSIZE == 1000
MAX_SUBPLANNER_ITERATIONS == 20

\* _SOURCE_EXTENSIONS: a path is a sequence of characters.
SOURCE_EXTENSIONS ==
  { <<".","p","y">>, <<".","j","s">>, <<".","t","s">>, <<".","j","s","x">>,
    <<".","t","s","x">>, <<".","h","t","m","l">>, <<".","c","s","s">>,
    <<".","s","c","s","s">>, <<".","j","a","v","a">>, <<".","c">>,
    <<".","c","p","p">>, <<".","h">>, <<".","h","p","p">>, <<".","g","o">>,
    <<".","r","s">>, <<".","r","b">>, <<".","p","h","p">>,
    <<".","s","w","i","f","t">>, <<".","k","t">>, <<".","c","s">>, <<".","r">>,
    <<".","l","u","a">>, <<".","s","h">>, <<".","b","a","t">> }

\* --------------------------------------------------------- input universes
\* Scopes the LLM may name; BigScope reaches SCOPE_THRESHOLD.
BigScope == <<"a", "b", "c", "d">>
SmallScope == <<"a">>

\* Raw tasks of a root planning response (RawTaskInput: id, description, scope).
RootRaw ==
  { [id |-> "",   description |-> "do", scope |-> SmallScope],
    [id |-> "t1", description |-> "do", scope |-> BigScope] }

\* Raw tasks of a sub-planner response.
SubRaw ==
  { [id |-> "", description |-> "do", scope |-> <<"a", "x">>],
    [id |-> "", description |-> "do", scope |-> BigScope] }

\* Raw fix tasks of a reconciler sweep.
FixRaw ==
  { [id |-> "",   description |-> "do", scope |-> SmallScope],
    [id |-> "t1", description |-> "do", scope |-> SmallScope] }

\* Files a worker response may write: main.py and SPEC.md.
MainPy == <<"m", "a", "i", "n", ".", "p", "y">>
SpecMd == <<"S", "P", "E", "C", ".", "m", "d">>

\* What one worker LLM call may yield: the handoff status the LLM reports and
\* the files of its file operations, or an exception of the call.
WorkerOutcomes ==
  { [raised |-> FALSE, status |-> "complete", writes |-> {MainPy}],
    [raised |-> FALSE, status |-> "complete", writes |-> {SpecMd}],
    [raised |-> TRUE,  status |-> "failed",   writes |-> {}] }

SeqsUpTo(S, n) == UNION { [1..k -> S] : k \in 0..n }

\* The task lists a root planning response may hold: every list of up to
\* MaxPlanLen raw tasks, and one wide list that fills a whole run.
RootPlans ==
  SeqsUpTo(RootRaw, MaxPlanLen)
    \cup { [k \in 1..MaxLoad |-> [id |-> "", description |-> "do", scope |-> SmallScope]] }
\* Raw subtasks of particular shapes: one that names its own id, one proposed
\* without a scope, and one whose scope lies entirely outside the parent's.
SubNamed == [id |-> "s1", description |-> "do", scope |-> SmallScope]
SubNoScope == [id |-> "", description |-> "do", scope |-> <<>>]
SubOutside == [id |-> "", description |-> "do", scope |-> <<"x">>]

\* The task lists a sub-planner response may hold: every list of up to
\* MaxPlanLen raw subtasks, a list that repeats one id, and the two lists of
\* one subtask with an empty or a foreign scope.
SubPlans ==
  SeqsUpTo(SubRaw, MaxPlanLen)
    \cup { <<SubNamed, SubNamed>>, <<SubNoScope>>, <<SubOutside>> }

\* ---------------------------------------------------------------- helpers
Pad3(n) ==
  IF n < 10 THEN "00" \o ToString(n)
  ELSE IF n < 100 THEN "0" \o ToString(n) ELSE ToString(n)

\* `not raw.description or not raw.description.strip()`
IsBlank(d) == d \in {"", " "}

InSeq(x, s) == \E i \in 1..Len(s) : s[i] = x
SeqToSet(s) == { s[i] : i \in 1..Len(s) }

\* str.lower() on the characters used by the paths of the model.
LowerChar(c) ==
  CASE c = "S" -> "s" [] c = "P" -> "p" [] c = "E" -> "e" [] c = "C" -> "c"
    [] c = "N" -> "n" [] c = "G" -> "g" [] c = "Y" -> "y" [] OTHER -> c
Lower(s) == [i \in 1..Len(s) |-> LowerChar(s[i])]

\* `"." + f.rsplit(".", 1)[-1].lower() if "." in f else ""`
Extension(f) ==
  IF ~InSeq(".", f) THEN <<>>
  ELSE LET last == CHOOSE i \in 1..Len(f) :
                     f[i] = "." /\ \A j \in (i+1)..Len(f) : f[j] # "."
       IN <<".">> \o Lower(SubSeq(f, last + 1, Len(f)))


\* ------------------------------------------------------------------ state
VARIABLES
  \* configuration (Config.max_workers, Config.max_planner_iterations,
  \* Config.reconciler_enabled)
  max_workers, max_planner_iterations, reconciler_enabled,
  \* Planner
  pc,                       \* where run_loop is suspended
  running,                  \* Planner._running
  iteration, planning_done, consecutive_errors, backoff_s,  \* locals of run_loop
  all_handoffs, handoffs_since_last_plan, pending_handoffs,
  active_tasks, dispatched_ids, all_tasks, task_counter,
  injected_tasks, empty_plan_nudges, nudge_pending,
  \* WorkerPool
  semaphore,                \* free slots of asyncio.Semaphore(max_workers)
  active_count,             \* WorkerPool._active_count
  \* the coroutines spawned by asyncio.create_task, in spawn order
  procs,
  \* the output directory (set of relative paths)
  files,
  \* Reconciler._task_counter
  fix_counter,
  sweeps,                   \* calls of Reconciler.sweep so far
  \* observations of the run, read by the properties only
  stopped,                  \* stop() was called while run_loop was running
  faults,                   \* disruptions so far (see Disrupt)
  plan_calls,               \* root plan calls issued
  worker_calls,             \* worker LLM calls issued
  empty_streak,             \* consecutive empty plans with nothing active, no source
  nudged_in_streak,         \* plan messages of that streak carrying the nudge
  exit_reason,              \* why run_loop left its main loop
  \* one call of WorkerPool._execute_single, step by step
  wpc,                      \* where the call is suspended, or how it ended
  llm_calls,                \* calls of client.complete issued by the call
  written,                  \* files the call wrote below output_dir
  blocked,                  \* paths of the file operations the call skipped
  applied,                  \* file operations of the responses it parsed
  whandoff,                 \* the handoff the call returned
  first_error, retry_error, \* exceptions caught from the two attempts
  wevents,                  \* the events the call passed to _emit, in order
  \* EventBus
  subscribers,              \* EventBus._subscribers: the queues, in order
  emitted,                  \* number of events passed to emit so far
  bus_ops,                  \* subscribe/unsubscribe/get operations so far
  \* one call of parse_worker_response
  pvalue,                   \* the object the LLM meant to send
  pdamage,                  \* how the text sent differs from its serialization
  presult,                  \* what parse_worker_response returned or raised
  \* the file tree delta of the root planner's plan messages
  output_tree,              \* the files below output_dir
  prev_file_tree,           \* Planner._prev_file_tree
  state_tree,               \* state.file_tree read by the plan call in flight
  new_files, removed_files, \* the two lists of the last follow-up message
  dpc,                      \* "idle", or "calling" while _plan awaits the LLM
  diteration,               \* the iteration argument of the next _plan call
  recorded,                 \* the tree read by the last _plan that returned
  \* the conversation of the root planner
  conversation,             \* Planner.conversation
  cpc,                      \* "idle", or "calling" while _plan awaits the LLM
  citeration,               \* the iteration argument of the next _plan call
  conv_nudge_pending,       \* Planner._nudge_pending
  entered,                  \* the planning state when the last _plan was entered
  sent,                     \* the conversation of that call before compaction
  outcome,                  \* how the last _plan ended: "returned" or "raised"
  cfaults,                  \* failed plan calls and nudges so far
  \* the subtask ids of one decompose_and_execute call
  sub_dispatched,           \* its local dispatched_ids
  sub_raw,                  \* the raw tasks of its last plan
  sub_built,                \* what _build_subtasks returned for them
  sub_rounds                \* plans built so far

vars ==
  << max_workers, max_planner_iterations, pc, running, iteration, planning_done,
     consecutive_errors, backoff_s, all_handoffs, handoffs_since_last_plan, pending_handoffs,
     active_tasks, dispatched_ids, all_tasks, task_counter, injected_tasks,
     empty_plan_nudges, nudge_pending, semaphore, active_count, procs, files,
     fix_counter, stopped, faults, plan_calls, worker_calls, empty_streak,
     nudged_in_streak, exit_reason,
     wpc, llm_calls, written, blocked, applied, whandoff, first_error, retry_error,
     wevents,
     subscribers, emitted, bus_ops,
     reconciler_enabled, sweeps,
     pvalue, pdamage, presult,
     output_tree, prev_file_tree, state_tree, new_files, removed_files, dpc,
     diteration, recorded,
     conversation, cpc, citeration, conv_nudge_pending, entered, sent, outcome,
     cfaults,
     sub_dispatched, sub_raw, sub_built, sub_rounds >>

workerVars ==
  << wpc, llm_calls, written, blocked, applied, whandoff, first_error, retry_error,
     wevents >>
busVars == << subscribers, emitted, bus_ops >>
parseVars == << pvalue, pdamage, presult >>
deltaVars ==
  << output_tree, prev_file_tree, state_tree, new_files, removed_files, dpc,
     diteration, recorded >>
idVars == << sub_dispatched, sub_raw, sub_built, sub_rounds >>
convVars ==
  << conversation, cpc, citeration, conv_nudge_pending, entered, sent, outcome,
     cfaults >>
plannerVars ==
  << max_workers, max_planner_iterations, pc, running, iteration, planning_done,
     consecutive_errors, backoff_s, all_handoffs, handoffs_since_last_plan, pending_handoffs,
     active_tasks, dispatched_ids, all_tasks, task_counter, injected_tasks,
     empty_plan_nudges, nudge_pending, semaphore, active_count, procs, files,
     fix_counter, stopped, faults, plan_calls, worker_calls, empty_streak,
     nudged_in_streak, exit_reason, reconciler_enabled, sweeps >>

configVars == << max_workers, max_planner_iterations, reconciler_enabled >>

\* The variables of the planner other than the slots of the worker pool.
poolVars == << semaphore, active_count >>
plannerButPool ==
  << max_workers, max_planner_iterations, pc, running, iteration, planning_done,
     consecutive_errors, backoff_s, all_handoffs, handoffs_since_last_plan,
     pending_handoffs, active_tasks, dispatched_ids, all_tasks, task_counter,
     injected_tasks, empty_plan_nudges, nudge_pending, procs, files,
     fix_counter, stopped, faults, plan_calls, worker_calls, empty_streak,
     nudged_in_streak, exit_reason, reconciler_enabled, sweeps >>

\* Handoff(task_id, status, summary, concerns); the summary is kept by its prefix.
MkHandoff(tid, status, summary, concerns) ==
  [task_id |-> tid, status |-> status, summary |-> summary, concerns |-> concerns]

\* Task(id, parent_id, scope)
MkTask(tid, parent_id, scope) ==
  [id |-> tid, parent_id |-> parent_id, scope |-> scope]

\* A coroutine running one task: `parent` is the index in procs of the
\* sub-planner that spawned it (0 for the root planner), `depth` the depth it
\* would decompose at, `st` its suspension point, and from `pending` on the
\* locals of decompose_and_execute.
MkProc(task, parent, depth) ==
  [ task |-> task, parent |-> parent, depth |-> depth, st |-> "spawned",
    atomic |-> FALSE,
    pending |-> <<>>, all_handoffs |-> <<>>, since |-> <<>>,
    active |-> {}, dispatched |-> {}, subtasks |-> <<>>,
    iteration |-> 0, planning_done |-> FALSE, errors |-> 0 ]

\* The locals of a coroutine that has returned are gone.
Finished(p) ==
  [ MkProc(p.task, p.parent, p.depth) EXCEPT !.st = "finished" ]

\* The disruptions of a run: a streak of failing plan calls of one planner, a
\* worker call that raises, a dispatch that fails, a stop request, a reconciler
\* sweep.  A run sees at most MaxFaults of them.
Load == Len(procs) + Len(injected_tasks) + faults
Disrupt == faults < MaxFaults /\ Load < MaxLoad

\* asyncio runs the first step of the tasks made by create_task before it
\* handles any later timer or I/O completion, in creation order: while a
\* coroutine is still "spawned", the next step is the start of the oldest one.
\* Likewise run_loop, once the timer of its tick sleep has fired (pc = "tick"),
\* runs its pass before any later event is handled.
Settled ==
  /\ \A k \in 1..Len(procs) : procs[k].st # "spawned"
  /\ pc # "tick"
OldestSpawned(i) ==
  /\ procs[i].st = "spawned"
  /\ \A k \in 1..(i-1) : procs[k].st # "spawned"

PlannerInit ==
  /\ max_workers \in 0..MaxWorkersCfg
  /\ max_planner_iterations \in {1, MaxIterationsCfg}
  /\ reconciler_enabled \in BOOLEAN
  \* the runs without reconciler are followed for one configuration
  /\ ~reconciler_enabled => (max_workers = 1 /\ max_planner_iterations = 1)
  /\ pc = "init"
  /\ running = FALSE
  /\ iteration = 0
  /\ planning_done = FALSE
  /\ consecutive_errors = 0
  /\ backoff_s = 0
  /\ all_handoffs = <<>>
  /\ handoffs_since_last_plan = <<>>
  /\ pending_handoffs = <<>>
  /\ active_tasks = {}
  /\ dispatched_ids = {}
  /\ all_tasks = <<>>
  /\ task_counter = 0
  /\ injected_tasks = <<>>
  /\ empty_plan_nudges = 0
  /\ nudge_pending = FALSE
  /\ semaphore = max_workers
  /\ active_count = 0
  /\ procs = <<>>
  /\ files = {}
  /\ fix_counter = 0
  /\ sweeps = 0
  /\ stopped = FALSE
  /\ faults = 0
  /\ plan_calls = 0
  /\ worker_calls = 0
  /\ empty_streak = 0
  /\ nudged_in_streak = 0
  /\ exit_reason = "none"

\* Handoff with its files_changed field, as one worker call builds it.
WHandoff(tid, status, summary, files_changed, concerns) ==
  [task_id |-> tid, status |-> status, summary |-> summary,
   files_changed |-> files_changed, concerns |-> concerns]

NoHandoff == WHandoff("", "", "", <<>>, <<>>)
NoError == [type |-> "", msg |-> ""]

\* No worker call is followed in detail.
WorkerIdle ==
  /\ wpc = "idle"
  /\ llm_calls = 0
  /\ written = {}
  /\ blocked = {}
  /\ applied = <<>>
  /\ whandoff = NoHandoff
  /\ first_error = NoError
  /\ retry_error = NoError
  /\ wevents = <<>>

\* EventBus.__init__
BusIdle ==
  /\ subscribers = <<>>
  /\ emitted = 0
  /\ bus_ops = 0

\* The object and the text of a response that was sent as serialized.
Undamaged == [literal |-> FALSE, cut |-> 0, wrapped |-> FALSE]
NotParsed == [raised |-> FALSE, status |-> "", concerns |-> <<>>,
              file_operations |-> <<>>]

\* No response text is followed through parse_worker_response.
ParseIdle ==
  /\ pvalue = [handoff |-> "absent", ops |-> "absent", content |-> <<>>]
  /\ pdamage = Undamaged
  /\ presult = NotParsed

\* Planner.__init__ (_prev_file_tree), with an empty output directory.
DeltaIdle ==
  /\ output_tree = {}
  /\ prev_file_tree = {}
  /\ state_tree = {}
  /\ new_files = <<>>
  /\ removed_files = <<>>
  /\ dpc = "idle"
  /\ diteration = 0
  /\ recorded = {}

\* LLMMessage(role, content): a content is kept as what the text is and its
\* length in characters; `n` tells the summaries of compaction apart.
Msg(role, text, n, chars) ==
  [role |-> role, content |-> [text |-> text, n |-> n, chars |-> chars]]
SystemMsg == Msg("system", "system_prompt", 0, SmallChars)

\* Planner.__init__ and the first statement of run_loop: the conversation is
\* the system prompt; no _plan call was entered yet.
NoAttempt == [conversation |-> <<>>, nudge_pending |-> FALSE]
ConvIdle ==
  /\ conversation = << SystemMsg >>
  /\ cpc = "idle"
  /\ citeration = 0
  /\ conv_nudge_pending = FALSE
  /\ entered = NoAttempt
  /\ sent = <<>>
  /\ outcome = "none"
  /\ cfaults = 0

\* decompose_and_execute before its first plan.
IdsIdle ==
  /\ sub_dispatched = {}
  /\ sub_raw = <<>>
  /\ sub_built = <<>>
  /\ sub_rounds = 0

Init ==
  PlannerInit /\ WorkerIdle /\ BusIdle /\ ParseIdle /\ DeltaIdle /\ ConvIdle
    /\ IdsIdle

\* ----------------------------------------------------------- root planner
\* _collect_completed_handoffs without `self.active_tasks.discard(task.id)`.
TaskIdsOf_None(pend) == {}

HandoffsOf(pend) == [i \in 1..Len(pend) |-> pend[i][2]]
TaskIdsOf(pend) == { pend[i][1].id : i \in 1..Len(pend) }

\* _project_has_source_files
ProjectHasSourceFiles(tree) == \E f \in tree : Extension(f) \in SOURCE_EXTENSIONS

\* _build_tasks_from_raw without the `task_id in self.dispatched_ids` test.
BuildTasksFromRaw_KeepsDuplicates(raw, counter, dispatched) ==
  LET F[i \in 0..Len(raw)] ==
        IF i = 0 THEN [tasks |-> <<>>, counter |-> counter]
        ELSE LET prev == F[i-1]
                 r == raw[i]
                 c == prev.counter + 1
                 tid == IF r.id # "" THEN r.id ELSE "task-" \o Pad3(c)
             IN IF IsBlank(r.description) THEN prev
                ELSE [tasks |-> Append(prev.tasks, MkTask(tid, "", r.scope)),
                      counter |-> c]
  IN F[Len(raw)]

\* _build_tasks_from_raw: the tasks built and the task counter afterwards.
BuildTasksFromRaw(raw, counter, dispatched) ==
  LET F[i \in 0..Len(raw)] ==
        IF i = 0 THEN [tasks |-> <<>>, counter |-> counter]
        ELSE LET prev == F[i-1]
                 r == raw[i]
                 c == prev.counter + 1
                 tid == IF r.id # "" THEN r.id ELSE "task-" \o Pad3(c)
             IN IF IsBlank(r.description) THEN prev
                ELSE IF tid \in dispatched THEN [prev EXCEPT !.counter = c]
                ELSE [tasks |-> Append(prev.tasks, MkTask(tid, "", r.scope)),
                      counter |-> c]
  IN F[Len(raw)]

\* _dispatch_tasks without the `task.id in self.dispatched_ids` test.
DispatchTasks_Unchecked(ts, dispatched) == ts

\* _dispatch_tasks: the tasks of `ts` that are dispatched, in order (a task
\* whose id is already in dispatched_ids is skipped).
DispatchTasks(ts, dispatched) ==
  LET F[i \in 0..Len(ts)] ==
        IF i = 0 THEN <<>>
        ELSE IF ts[i].id \in dispatched \cup { F[i-1][j].id : j \in 1..Len(F[i-1]) }
             THEN F[i-1]
             ELSE Append(F[i-1], ts[i])
  IN F[Len(ts)]

\* The coroutines created for a batch of dispatched root tasks.
SpawnRoot(ts) == [i \in 1..Len(ts) |-> MkProc(ts[i], 0, 0)]

\* run_loop's planning trigger
HasCapacity == active_count < max_workers
\* The handoff test of the trigger with `>` for `>=`.
EnoughHandoffs_OffByOne(since) == Len(since) > MIN_HANDOFFS_FOR_REPLAN
EnoughHandoffs(since) == Len(since) >= MIN_HANDOFFS_FOR_REPLAN
NeedsPlan(since, active) ==
  /\ HasCapacity
  /\ (iteration = 0 \/ EnoughHandoffs(since) \/ (active = {} /\ iteration > 0))
  /\ ~planning_done

\* The nudge budget test with `>` for `>=`.
NudgeBudgetSpent_OffByOne(n) == n > MAX_EMPTY_PLAN_NUDGES

\* `self._empty_plan_nudges >= MAX_EMPTY_PLAN_NUDGES`
NudgeBudgetSpent(n) == n >= MAX_EMPTY_PLAN_NUDGES

\* The tests below without `iteration == 1`.
GivesUp_NotOnFirst(it, source, nudges) == source \/ nudges >= MAX_EMPTY_PLAN_NUDGES

\* The tests that mark planning done after an empty plan with nothing active:
\* the first iteration, source files present, or the nudge budget spent.
GivesUp(it, source, nudges) == it = 1 \/ source \/ NudgeBudgetSpent(nudges)



\* `if not tasks and not self.active_tasks` without the test of active_tasks.
QuietPlan_IgnoresActive(tasks, active) == tasks = <<>>

\* `if not tasks and not self.active_tasks`: a plan that built no task while
\* nothing is active.
QuietPlan(tasks, active) == tasks = <<>> /\ active = {}

\* run_loop without its final wait loop.
WaitLoop_ReturnsAtOnce(active, pend, allh, since, run) ==
  [ pc |-> "done", running |-> FALSE,
    all |-> allh, since |-> since, active |-> active, pending |-> pend ]

\* _collect_completed_handoffs followed by the test of the final wait loop
\* `while self.active_tasks and self._running`: the loop either drains and
\* sleeps, or run_loop returns.
WaitLoop(active, pend, allh, since, run) ==
  IF active # {} /\ run
  THEN [ pc |-> "wait", running |-> run,
         all |-> allh \o HandoffsOf(pend), since |-> since \o HandoffsOf(pend),
         active |-> active \ TaskIdsOf(pend), pending |-> <<>> ]
  ELSE [ pc |-> "done", running |-> FALSE,
         all |-> allh, since |-> since, active |-> active, pending |-> pend ]

\* The end of one pass of the main loop: `if planning_done and not
\* self.active_tasks: break`, else the tick sleep.
AfterIteration(done, active, pend, allh, since, run) ==
  IF done /\ active = {}
  THEN WaitLoop(active, pend, allh, since, run)
  ELSE [ pc |-> "loop", running |-> run,
         all |-> allh, since |-> since, active |-> active, pending |-> pend ]

\* run_loop up to its main loop.
Start ==
  /\ pc = "init"
  /\ pc' = "tick"
  /\ running' = TRUE
  /\ UNCHANGED << configVars, iteration, planning_done, consecutive_errors, backoff_s,
                  all_handoffs, handoffs_since_last_plan, pending_handoffs,
                  active_tasks, dispatched_ids, all_tasks, task_counter,
                  injected_tasks, empty_plan_nudges, nudge_pending, semaphore,
                  active_count, procs, files, fix_counter, sweeps, stopped, faults,
                  plan_calls, worker_calls, empty_streak, nudged_in_streak,
                  exit_reason >>
  /\ UNCHANGED << workerVars, busVars, parseVars, deltaVars, convVars, idVars >>

\* The tick sleep (or the backoff sleep) of the main loop ends.
Wake ==
  /\ pc = "loop"
  /\ Settled
  /\ pc' = "tick"
  /\ UNCHANGED << configVars, running, iteration, planning_done,
                  consecutive_errors, backoff_s, all_handoffs, handoffs_since_last_plan,
                  pending_handoffs, active_tasks, dispatched_ids, all_tasks,
                  task_counter, injected_tasks, empty_plan_nudges, nudge_pending,
                  semaphore, active_count, procs, files, fix_counter, sweeps, stopped,
                  faults, plan_calls, worker_calls, empty_streak,
                  nudged_in_streak, exit_reason >>
  /\ UNCHANGED << workerVars, busVars, parseVars, deltaVars, convVars, idVars >>

\* One pass of the main loop from its test to the next suspension: the plan
\* LLM call (the follow-up message has consumed a pending nudge), the tick
\* sleep, or the end of the loop.
RootTick ==
  /\ pc = "tick"
  /\ IF running /\ iteration < max_planner_iterations
     THEN LET allh == all_handoffs \o HandoffsOf(pending_handoffs)
              since == handoffs_since_last_plan \o HandoffsOf(pending_handoffs)
              drained == active_tasks \ TaskIdsOf(pending_handoffs)
              inj == DispatchTasks(injected_tasks, dispatched_ids)
              active == drained \cup { inj[k].id : k \in 1..Len(inj) }
              needs == NeedsPlan(since, active)
              r == IF needs
                   THEN [ pc |-> "plan", running |-> running, all |-> allh,
                          since |-> since, active |-> active, pending |-> <<>> ]
                   ELSE AfterIteration(planning_done, active, <<>>, allh, since,
                                       running)
              nudged == needs /\ iteration > 0 /\ nudge_pending
          IN /\ pc' = r.pc
             /\ running' = r.running
             /\ all_handoffs' = r.all
             /\ handoffs_since_last_plan' = r.since
             /\ active_tasks' = r.active
             /\ pending_handoffs' = r.pending
             /\ dispatched_ids' = dispatched_ids \cup { inj[k].id : k \in 1..Len(inj) }
             /\ all_tasks' = all_tasks \o inj
             /\ procs' = procs \o SpawnRoot(inj)
             /\ injected_tasks' = <<>>
             /\ nudge_pending' = IF nudged THEN FALSE ELSE nudge_pending
             /\ nudged_in_streak' = IF nudged THEN nudged_in_streak + 1
                                    ELSE nudged_in_streak
             /\ plan_calls' = IF needs THEN plan_calls + 1 ELSE plan_calls
             /\ exit_reason' = IF r.pc \in {"wait", "done"} THEN "done"
                               ELSE exit_reason
     ELSE LET r == WaitLoop(active_tasks, pending_handoffs, all_handoffs,
                            handoffs_since_last_plan, running)
          IN /\ pc' = r.pc
             /\ running' = r.running
             /\ all_handoffs' = r.all
             /\ handoffs_since_last_plan' = r.since
             /\ active_tasks' = r.active
             /\ pending_handoffs' = r.pending
             /\ exit_reason' = IF running THEN "cap" ELSE "stop"
             /\ UNCHANGED << dispatched_ids, all_tasks, procs, injected_tasks,
                             nudge_pending, nudged_in_streak, plan_calls >>
  /\ UNCHANGED << configVars, iteration, planning_done, consecutive_errors, backoff_s,
                  task_counter, empty_plan_nudges, semaphore, active_count, files,
                  fix_counter, sweeps, stopped, faults, worker_calls, empty_streak >>
  /\ UNCHANGED << workerVars, busVars, parseVars, deltaVars, convVars, idVars >>

\* The plan LLM call returns `raw`: the rest of _plan, then run_loop up to the
\* next suspension.
PlanReturn(raw) ==
  /\ pc = "plan"
  /\ Settled
  /\ LET built == BuildTasksFromRaw(raw, task_counter, dispatched_ids)
         tasks == built.tasks
         new == DispatchTasks(tasks, dispatched_ids)
         it == iteration + 1
         quiet == QuietPlan(tasks, active_tasks)
         source == ProjectHasSourceFiles(files)
         done == planning_done \/ (quiet /\ GivesUp(it, source, empty_plan_nudges))
         nudge == quiet /\ ~GivesUp(it, source, empty_plan_nudges)
         active == active_tasks \cup { new[k].id : k \in 1..Len(new) }
         r == AfterIteration(done, active, pending_handoffs, all_handoffs, <<>>,
                             running)
         streak == quiet /\ it > 1 /\ ~source
     IN /\ Load + Len(tasks) <= MaxLoad
        /\ built.counter <= MaxProposals
        /\ iteration' = it
        /\ consecutive_errors' = 0
        /\ UNCHANGED backoff_s
        /\ task_counter' = built.counter
        /\ planning_done' = done
        /\ empty_plan_nudges' = IF nudge THEN empty_plan_nudges + 1
                                ELSE IF tasks # <<>> THEN 0 ELSE empty_plan_nudges
        /\ nudge_pending' = IF nudge THEN TRUE ELSE nudge_pending
        /\ dispatched_ids' = dispatched_ids \cup { new[k].id : k \in 1..Len(new) }
        /\ all_tasks' = all_tasks \o new
        /\ procs' = procs \o SpawnRoot(new)
        /\ pc' = r.pc
        /\ running' = r.running
        /\ all_handoffs' = r.all
        /\ handoffs_since_last_plan' = r.since
        /\ active_tasks' = r.active
        /\ pending_handoffs' = r.pending
        /\ empty_streak' = IF streak THEN empty_streak + 1 ELSE 0
        /\ nudged_in_streak' = IF streak THEN nudged_in_streak ELSE 0
        /\ exit_reason' = IF r.pc \in {"wait", "done"} THEN "done" ELSE exit_reason
  /\ UNCHANGED << configVars, injected_tasks, semaphore, active_count, files,
                  fix_counter, sweeps, stopped, faults, plan_calls, worker_calls >>
  /\ UNCHANGED << workerVars, busVars, parseVars, deltaVars, convVars, idVars >>

\* The backoff without its cap of BACKOFF_MAX_MS.
BackoffS_Uncapped(errors) == (BACKOFF_BASE_MS \div 1000) * 2 ^ (errors - 1)

\* The backoff of the except branch of run_loop after `errors` consecutive
\* failures, in seconds:
\* min((BACKOFF_BASE_MS / 1000) * (2 ** (errors - 1)), BACKOFF_MAX_MS / 1000).
BackoffS(errors) ==
  LET doubled == (BACKOFF_BASE_MS \div 1000) * 2 ^ (errors - 1)
      cap == BACKOFF_MAX_MS \div 1000
  IN IF doubled < cap THEN doubled ELSE cap

\* `if consecutive_errors >= MAX_CONSECUTIVE_ERRORS: break`
Aborts(errors) == errors >= MAX_CONSECUTIVE_ERRORS

\* The plan LLM call raises: the except branch of run_loop (backoff sleep, or
\* the abort after MAX_CONSECUTIVE_ERRORS).
PlanFail ==
  /\ pc = "plan"
  /\ Settled
  /\ consecutive_errors > 0 \/ Disrupt
  /\ faults' = IF consecutive_errors > 0 THEN faults ELSE faults + 1
  /\ consecutive_errors' = consecutive_errors + 1
  /\ backoff_s' = BackoffS(consecutive_errors + 1)
  /\ LET r == IF Aborts(consecutive_errors + 1)
              THEN WaitLoop(active_tasks, pending_handoffs, all_handoffs,
                            handoffs_since_last_plan, running)
              ELSE [ pc |-> "loop", running |-> running, all |-> all_handoffs,
                     since |-> handoffs_since_last_plan, active |-> active_tasks,
                     pending |-> pending_handoffs ]
     IN /\ pc' = r.pc
        /\ running' = r.running
        /\ all_handoffs' = r.all
        /\ handoffs_since_last_plan' = r.since
        /\ active_tasks' = r.active
        /\ pending_handoffs' = r.pending
        /\ exit_reason' = IF r.pc \in {"wait", "done"} THEN "errors" ELSE exit_reason
  /\ UNCHANGED << configVars, iteration, planning_done, dispatched_ids, all_tasks,
                  task_counter, injected_tasks, empty_plan_nudges, nudge_pending,
                  semaphore, active_count, procs, files, fix_counter, sweeps, stopped,
                  plan_calls, worker_calls, empty_streak, nudged_in_streak >>
  /\ UNCHANGED << workerVars, busVars, parseVars, deltaVars, convVars, idVars >>

\* One pass of the final wait loop after its sleep.
WaitTick ==
  /\ pc = "wait"
  /\ Settled
  /\ LET r == WaitLoop(active_tasks, pending_handoffs, all_handoffs,
                       handoffs_since_last_plan, running)
     IN /\ pc' = r.pc
        /\ running' = r.running
        /\ all_handoffs' = r.all
        /\ handoffs_since_last_plan' = r.since
        /\ active_tasks' = r.active
        /\ pending_handoffs' = r.pending
  /\ UNCHANGED << configVars, iteration, planning_done, consecutive_errors, backoff_s,
                  dispatched_ids, all_tasks, task_counter, injected_tasks,
                  empty_plan_nudges, nudge_pending, semaphore, active_count, procs,
                  files, fix_counter, sweeps, stopped, faults, plan_calls,
                  worker_calls, empty_streak, nudged_in_streak, exit_reason >>
  /\ UNCHANGED << workerVars, busVars, parseVars, deltaVars, convVars, idVars >>

\* Planner.stop() called from outside while run_loop is running.
Stop ==
  /\ pc \in {"loop", "plan", "wait"}
  /\ Settled
  /\ running
  /\ Disrupt
  /\ faults' = faults + 1
  /\ running' = FALSE
  /\ stopped' = TRUE
  /\ UNCHANGED << configVars, pc, iteration, planning_done, consecutive_errors, backoff_s,
                  all_handoffs, handoffs_since_last_plan, pending_handoffs,
                  active_tasks, dispatched_ids, all_tasks, task_counter,
                  injected_tasks, empty_plan_nudges, nudge_pending, semaphore,
                  active_count, procs, files, fix_counter, sweeps,
                  plan_calls, worker_calls, empty_streak, nudged_in_streak,
                  exit_reason >>
  /\ UNCHANGED << workerVars, busVars, parseVars, deltaVars, convVars, idVars >>

\* run_from_conversation starts run_periodic for every configuration.
ReconcilerStarted_Always(enabled) == TRUE

\* `if config.reconciler_enabled:` of run_from_conversation: only then is the
\* reconciler built and its run_periodic started.
ReconcilerStarted(enabled) == enabled

\* Reconciler.run_periodic: a sweep that found issues (so the file tree is not
\* empty) builds its fix tasks and hands them to Planner.inject_tasks.
Inject(raw) ==
  /\ ReconcilerStarted(reconciler_enabled)
  /\ pc \in {"loop", "plan", "wait"}
  /\ Settled
  /\ files # {}
  /\ Disrupt
  /\ faults' = faults + 1
  /\ Load + 2 <= MaxLoad
  /\ sweeps' = sweeps + 1
  /\ fix_counter' = fix_counter + 1
  /\ LET tid == IF raw.id # "" THEN raw.id ELSE "fix-" \o Pad3(fix_counter + 1)
     IN injected_tasks' = Append(injected_tasks, MkTask(tid, "", raw.scope))
  /\ UNCHANGED << configVars, pc, running, iteration, planning_done,
                  consecutive_errors, backoff_s, all_handoffs, handoffs_since_last_plan,
                  pending_handoffs, active_tasks, dispatched_ids, all_tasks,
                  task_counter, empty_plan_nudges, nudge_pending, semaphore,
                  active_count, procs, files, stopped, plan_calls,
                  worker_calls, empty_streak, nudged_in_streak, exit_reason >>
  /\ UNCHANGED << workerVars, busVars, parseVars, deltaVars, convVars, idVars >>

\* Reconciler.run_periodic: a sweep that returns no fix task (the file tree is
\* empty, or the build and the tests pass), so on_fix_tasks is not called.
SweepClean ==
  /\ ReconcilerStarted(reconciler_enabled)
  /\ pc \in {"loop", "plan", "wait"}
  /\ Settled
  /\ Disrupt
  /\ faults' = faults + 1
  /\ sweeps' = sweeps + 1
  /\ UNCHANGED << configVars, pc, running, iteration, planning_done,
                  consecutive_errors, backoff_s, all_handoffs, handoffs_since_last_plan,
                  pending_handoffs, active_tasks, dispatched_ids, all_tasks,
                  task_counter, injected_tasks, empty_plan_nudges, nudge_pending,
                  semaphore, active_count, procs, files, fix_counter, stopped,
                  plan_calls, worker_calls, empty_streak, nudged_in_streak,
                  exit_reason >>
  /\ UNCHANGED << workerVars, busVars, parseVars, deltaVars, convVars, idVars >>


\* ------------------------------------------------- worker pool, sub-planner
rootVars ==
  << pc, running, iteration, planning_done, consecutive_errors, backoff_s, all_handoffs,
     handoffs_since_last_plan, active_tasks, dispatched_ids, all_tasks,
     task_counter, injected_tasks, empty_plan_nudges, nudge_pending, fix_counter, sweeps,
     stopped, plan_calls, empty_streak, nudged_in_streak, exit_reason >>

\* should_decompose without the depth test.
ShouldDecompose_AnyDepth(task, depth) == Len(task.scope) >= SCOPE_THRESHOLD

\* Subplanner.should_decompose
ShouldDecompose(task, depth) ==
  IF depth >= MAX_DEPTH THEN FALSE
  ELSE IF Len(task.scope) < SCOPE_THRESHOLD THEN FALSE
  ELSE TRUE

\* The handoff of coroutine i reaches its dispatcher: _dispatch_single appends
\* it to the planner's pending_handoffs; _execute_subtask appends it to the
\* parent's pending list and discards the id from the parent's active set.
DeliverProcs(i, h) ==
  LET par == procs[i].parent
  IN IF par = 0
     THEN [procs EXCEPT ![i] = Finished(@)]
     ELSE [procs EXCEPT ![i] = Finished(@),
                        ![par].pending = Append(@, <<procs[i].task, h>>),
                        ![par].active = @ \ {procs[i].task.id}]

DeliverRoot(i, h) ==
  IF procs[i].parent = 0
  THEN Append(pending_handoffs, <<procs[i].task, h>>)
  ELSE pending_handoffs

\* WorkerPool._failure_handoff
FailureHandoff(tid) == MkHandoff(tid, "failed", "Worker failed", <<"error">>)

\* The handoff built by the except branch that catches an exception escaping
\* execute_task: of _dispatch_single, or of _execute_subtask.
CaughtHandoff(p) ==
  IF p.parent = 0
  THEN MkHandoff(p.task.id, "failed", "Dispatch failed", <<"error">>)
  ELSE MkHandoff(p.task.id, "failed", "Subtask execution failed", <<"error">>)

\* execute_task without the semaphore.
CanAcquire_Always == TRUE

\* `async with self.semaphore` when a slot is free.
CanAcquire == semaphore > 0

\* A spawned coroutine starts: _dispatch_single / _execute_subtask up to the
\* first suspension.  A complex task enters decompose_and_execute; any other
\* enters execute_task, takes a slot if one is free and issues its LLM call.
ProcStart(i) ==
  /\ OldestSpawned(i)
  /\ IF ShouldDecompose(procs[i].task, procs[i].depth)
     THEN /\ procs' = [procs EXCEPT ![i].st = "sp_loop"]
          /\ UNCHANGED << semaphore, active_count, worker_calls >>
     ELSE IF CanAcquire
     THEN /\ procs' = [procs EXCEPT ![i].st = "running"]
          /\ semaphore' = semaphore - 1
          /\ active_count' = active_count + 1
          /\ worker_calls' = worker_calls + 1
     ELSE /\ procs' = [procs EXCEPT ![i].st = "waiting"]
          /\ UNCHANGED << semaphore, active_count, worker_calls >>
  /\ UNCHANGED << configVars, rootVars, pending_handoffs, files, faults >>
  /\ UNCHANGED << workerVars, busVars, parseVars, deltaVars, convVars, idVars >>

\* A waiter on the semaphore gets a slot and issues its LLM call.
WorkerAcquire(i) ==
  /\ procs[i].st = "waiting"
  /\ Settled
  /\ CanAcquire
  /\ procs' = [procs EXCEPT ![i].st = "running"]
  /\ semaphore' = semaphore - 1
  /\ active_count' = active_count + 1
  /\ worker_calls' = worker_calls + 1
  /\ UNCHANGED << configVars, rootVars, pending_handoffs, files, faults >>
  /\ UNCHANGED << workerVars, busVars, parseVars, deltaVars, convVars, idVars >>

\* execute_task raises before its LLM call (reading the project state fails):
\* the slot is taken and released in the same step.  The except branch of the
\* caller builds the handoff; for an atomic fallback the caller is the plan
\* branch of the sub-planner loop, whose except branch counts an error (the
\* first since the plan call succeeded, so the loop goes on after a backoff).
WorkerRaise(i) ==
  /\ \/ procs[i].st = "waiting" /\ Settled
     \/ OldestSpawned(i) /\ ~ShouldDecompose(procs[i].task, procs[i].depth)
  /\ CanAcquire
  /\ Disrupt
  /\ faults' = faults + 1
  /\ IF procs[i].atomic
     THEN /\ procs' = [procs EXCEPT ![i].st = "sp_loop", ![i].atomic = FALSE,
                                    ![i].errors = @ + 1]
          /\ UNCHANGED pending_handoffs
     ELSE /\ procs' = DeliverProcs(i, CaughtHandoff(procs[i]))
          /\ pending_handoffs' = DeliverRoot(i, CaughtHandoff(procs[i]))
  /\ UNCHANGED << configVars, rootVars, semaphore, active_count, worker_calls,
                  files >>
  /\ UNCHANGED << workerVars, busVars, parseVars, deltaVars, convVars, idVars >>

\* The worker's LLM call ends with outcome o: _execute_single applies the file
\* operations and returns the handoff, execute_task releases the slot.
WorkerReturn(i, o) ==
  /\ procs[i].st = "running"
  /\ Settled
  /\ LET h == IF o.raised THEN FailureHandoff(procs[i].task.id)
              ELSE MkHandoff(procs[i].task.id, o.status, "worker", <<>>)
     IN /\ procs' = DeliverProcs(i, h)
        /\ pending_handoffs' = DeliverRoot(i, h)
  /\ o.raised => Disrupt
  /\ faults' = IF o.raised THEN faults + 1 ELSE faults
  /\ files' = files \cup o.writes
  /\ active_count' = active_count - 1
  /\ semaphore' = semaphore + 1
  /\ UNCHANGED << configVars, rootVars, worker_calls >>
  /\ UNCHANGED << workerVars, busVars, parseVars, deltaVars, convVars, idVars >>


\* Subplanner._collect_handoffs on the locals of coroutine p.
SpCollect(p) ==
  [p EXCEPT !.all_handoffs = @ \o HandoffsOf(p.pending),
            !.since = @ \o HandoffsOf(p.pending),
            !.active = @ \ TaskIdsOf(p.pending),
            !.pending = <<>>]

\* _build_subtasks without the removal of files outside the parent's scope.
ValidScope_Unfiltered(scope, parent_scope) == scope

\* The scope validation of _build_subtasks: the scope kept for a raw subtask,
\* and whether the subtask is skipped.
ValidScope(scope, parent_scope) ==
  IF parent_scope # <<>> /\ \E k \in 1..Len(scope) : ~InSeq(scope[k], parent_scope)
  THEN SelectSeq(scope, LAMBDA f : InSeq(f, parent_scope))
  ELSE scope

ScopeSkipped(scope, parent_scope) ==
  /\ parent_scope # <<>>
  /\ \E k \in 1..Len(scope) : ~InSeq(scope[k], parent_scope)
  /\ ValidScope(scope, parent_scope) = <<>>

\* Subplanner._build_subtasks
BuildSubtasks(raw, parent, dispatched) ==
  LET F[i \in 0..Len(raw)] ==
        IF i = 0 THEN [tasks |-> <<>>, counter |-> Cardinality(dispatched)]
        ELSE LET prev == F[i-1]
                 r == raw[i]
                 c == prev.counter + 1
                 tid == IF r.id # "" THEN r.id
                        ELSE parent.id \o "-sub-" \o ToString(c)
             IN IF IsBlank(r.description) THEN prev
                ELSE IF tid \in dispatched \/ ScopeSkipped(r.scope, parent.scope)
                THEN [prev EXCEPT !.counter = c]
                ELSE [tasks |-> Append(prev.tasks,
                                       MkTask(tid, parent.id,
                                              ValidScope(r.scope, parent.scope))),
                      counter |-> c]
      built == F[Len(raw)].tasks
  IN IF Len(built) > MAX_SUBTASKS THEN SubSeq(built, 1, MAX_SUBTASKS) ELSE built

\* Subplanner._aggregate_handoffs
AggregateHandoffs(parent, subtasks, handoffs) ==
  LET completed == Cardinality({k \in 1..Len(handoffs) : handoffs[k].status = "complete"})
      failed == Cardinality({k \in 1..Len(handoffs) : handoffs[k].status = "failed"})
      total == Len(subtasks)
      status == IF completed = total THEN "complete"
                ELSE IF failed = total THEN "failed"
                ELSE IF completed > 0 THEN "partial"
                ELSE "blocked"
      C[k \in 0..Len(handoffs)] ==
        IF k = 0 THEN <<>>
        ELSE C[k-1] \o [j \in 1..Len(handoffs[k].concerns) |->
                          "[" \o handoffs[k].task_id \o "] " \o handoffs[k].concerns[j]]
  IN MkHandoff(parent.id, status, "Decomposed", C[Len(handoffs)])

\* The sub-planner's planning trigger on the locals of p.
SpNeedsPlan(p) ==
  /\ HasCapacity
  /\ \/ p.iteration = 0
     \/ Len(p.since) >= SUB_MIN_HANDOFFS_FOR_REPLAN
     \/ (p.active = {} /\ p.iteration > 0)
  /\ ~p.planning_done

\* The two break tests that end a pass of the sub-planner loop.
SpBreaks(p) ==
  \/ p.planning_done /\ p.active = {}
  \/ ~p.planning_done /\ p.active = {} /\ p.iteration > 0 /\ p.since = <<>>

\* decompose_and_execute after its main loop, with locals p: the final drain,
\* then the straggler loop `while active_tasks` up to its first sleep, or the
\* return of the aggregate.
SpLeave(i, p) ==
  LET q == SpCollect(p)
  IN IF q.active # {}
     THEN /\ procs' = [procs EXCEPT ![i] = [q EXCEPT !.st = "sp_wait"]]
          /\ UNCHANGED pending_handoffs
     ELSE LET h == AggregateHandoffs(q.task, q.subtasks, q.all_handoffs)
              par == q.parent
          IN /\ procs' = IF par = 0
                         THEN [procs EXCEPT ![i] = Finished(q)]
                         ELSE [procs EXCEPT ![i] = Finished(q),
                                 ![par].pending = Append(@, <<q.task, h>>),
                                 ![par].active = @ \ {q.task.id}]
             /\ pending_handoffs' = DeliverRoot(i, h)

\* The sub-planner loop without its iteration cap.
SpUnderCap_NoCap(it) == TRUE

\* `while iteration < MAX_SUBPLANNER_ITERATIONS`
SpUnderCap(it) == it < MAX_SUBPLANNER_ITERATIONS

\* One pass of the sub-planner loop of coroutine i, from the loop test to the
\* next suspension.
SpTick(i) ==
  /\ procs[i].st = "sp_loop"
  /\ Settled
  /\ IF SpUnderCap(procs[i].iteration)
     THEN LET q == SpCollect(procs[i])
          IN IF SpNeedsPlan(q)
             THEN /\ procs' = [procs EXCEPT ![i] = [q EXCEPT !.st = "sp_plan"]]
                  /\ UNCHANGED pending_handoffs
             ELSE IF SpBreaks(q)
             THEN SpLeave(i, q)
             ELSE /\ procs' = [procs EXCEPT ![i] = q]
                  /\ UNCHANGED pending_handoffs
     ELSE SpLeave(i, procs[i])
  /\ UNCHANGED << configVars, rootVars, semaphore, active_count, worker_calls,
                  files, faults >>
  /\ UNCHANGED << workerVars, busVars, parseVars, deltaVars, convVars, idVars >>

\* The coroutines created by _dispatch_subtasks of coroutine i.
SpawnSub(ts, i) == [k \in 1..Len(ts) |-> MkProc(ts[k], i, procs[i].depth + 1)]

\* The sub-planner's LLM call returns `raw`.
SpPlanReturn(i, raw) ==
  /\ procs[i].st = "sp_plan"
  /\ Settled
  /\ LET p == procs[i]
         subtasks == BuildSubtasks(raw, p.task, p.dispatched)
         q == [p EXCEPT !.since = <<>>, !.iteration = @ + 1, !.errors = 0]
         ids == { subtasks[k].id : k \in 1..Len(subtasks) }
     IN /\ Load + Len(subtasks) <= MaxLoad
        /\ IF subtasks = <<>> /\ p.active = {}
           THEN IF q.iteration = 1
                THEN \* atomic fallback: execute_task(parent_task)
                     IF CanAcquire
                     THEN /\ procs' = [procs EXCEPT ![i] =
                                         [q EXCEPT !.st = "running", !.atomic = TRUE]]
                          /\ semaphore' = semaphore - 1
                          /\ active_count' = active_count + 1
                          /\ worker_calls' = worker_calls + 1
                          /\ UNCHANGED pending_handoffs
                     ELSE /\ procs' = [procs EXCEPT ![i] =
                                         [q EXCEPT !.st = "waiting", !.atomic = TRUE]]
                          /\ UNCHANGED << semaphore, active_count, worker_calls,
                                          pending_handoffs >>
                ELSE /\ SpLeave(i, [q EXCEPT !.planning_done = TRUE])
                     /\ UNCHANGED << semaphore, active_count, worker_calls >>
           ELSE /\ procs' = [procs EXCEPT ![i] =
                               [q EXCEPT !.st = "sp_loop",
                                         !.subtasks = @ \o subtasks,
                                         !.dispatched = @ \cup ids,
                                         !.active = @ \cup ids]]
                             \o SpawnSub(subtasks, i)
                /\ UNCHANGED << semaphore, active_count, worker_calls,
                                pending_handoffs >>
  /\ UNCHANGED << configVars, rootVars, files, faults >>
  /\ UNCHANGED << workerVars, busVars, parseVars, deltaVars, convVars, idVars >>

\* The sub-planner's LLM call raises: backoff, or the abort after
\* MAX_CONSECUTIVE_ERRORS of subplanner.py.
SpPlanFail(i) ==
  /\ procs[i].st = "sp_plan"
  /\ Settled
  /\ procs[i].errors > 0 \/ Disrupt
  /\ faults' = IF procs[i].errors > 0 THEN faults ELSE faults + 1
  /\ LET q == [procs[i] EXCEPT !.errors = @ + 1]
     IN IF q.errors >= SUB_MAX_CONSECUTIVE_ERRORS
        THEN SpLeave(i, q)
        ELSE /\ procs' = [procs EXCEPT ![i] = [q EXCEPT !.st = "sp_loop"]]
             /\ UNCHANGED pending_handoffs
  /\ UNCHANGED << configVars, rootVars, semaphore, active_count, worker_calls,
                  files >>
  /\ UNCHANGED << workerVars, busVars, parseVars, deltaVars, convVars, idVars >>

\* One pass of the straggler loop `while active_tasks` after its sleep.
SpWaitTick(i) ==
  /\ procs[i].st = "sp_wait"
  /\ Settled
  /\ IF procs[i].active # {}
     THEN /\ procs' = [procs EXCEPT ![i] = SpCollect(@)]
          /\ UNCHANGED pending_handoffs
     ELSE LET q == procs[i]
              h == AggregateHandoffs(q.task, q.subtasks, q.all_handoffs)
          IN /\ procs' = DeliverProcs(i, h)
             /\ pending_handoffs' = DeliverRoot(i, h)
  /\ UNCHANGED << configVars, rootVars, semaphore, active_count, worker_calls,
                  files, faults >>
  /\ UNCHANGED << workerVars, busVars, parseVars, deltaVars, convVars, idVars >>

\* ---------------------------------------------------------- specification
Next ==
  \/ Start
  \/ Wake
  \/ RootTick
  \/ \E raw \in RootPlans : PlanReturn(raw)
  \/ PlanFail
  \/ WaitTick
  \/ Stop
  \/ \E raw \in FixRaw : Inject(raw)
  \/ SweepClean
  \/ \E i \in 1..Len(procs) : ProcStart(i)
  \/ \E i \in 1..Len(procs) : WorkerAcquire(i)
  \/ \E i \in 1..Len(procs) : WorkerRaise(i)
  \/ \E i \in 1..Len(procs) : \E o \in WorkerOutcomes : WorkerReturn(i, o)
  \/ \E i \in 1..Len(procs) : SpTick(i)
  \/ \E i \in 1..Len(procs) : \E raw \in SubPlans : SpPlanReturn(i, raw)
  \/ \E i \in 1..Len(procs) : SpPlanFail(i)
  \/ \E i \in 1..Len(procs) : SpWaitTick(i)

Spec == Init /\ [][Next]_vars

\* Fair scheduling: the event loop runs every coroutine that is ready again
\* and again, each sleep ends, and each LLM call and each worker call
\* eventually returns or raises.  Nothing obliges stop() or the reconciler to
\* act.
PlanCall == PlanFail \/ \E raw \in RootPlans : PlanReturn(raw)
\* The next step of coroutine i, whatever its suspension point.
ProcStep(i) ==
  /\ i \in 1..Len(procs)
  /\ \/ ProcStart(i)
     \/ WorkerAcquire(i)
     \/ WorkerRaise(i)
     \/ \E o \in WorkerOutcomes : WorkerReturn(i, o)
     \/ SpTick(i)
     \/ \E raw \in SubPlans : SpPlanReturn(i, raw)
     \/ SpPlanFail(i)
     \/ SpWaitTick(i)
Fairness ==
  /\ SF_vars(Start)
  /\ SF_vars(Wake)
  /\ SF_vars(RootTick)
  /\ SF_vars(PlanCall)
  /\ SF_vars(WaitTick)
  /\ \A i \in 1..MaxLoad : SF_vars(ProcStep(i))

FairSpec == Init /\ [][Next]_vars /\ Fairness

\* ------------------------------------------------- a long decomposition
\* The subtasks and the handoffs of a sub-planner of task t1 that has planned
\* one subtask per round for n rounds, each run by a worker that completed.
RoundTask(n) == MkTask("t1-sub-" \o ToString(n), "t1", SmallScope)
RoundHandoff(n) == MkHandoff("t1-sub-" \o ToString(n), "complete", "worker", <<>>)

\* A run in which the root planner's first plan was the task t1 over BigScope
\* and the sub-planner of t1 is DecomposedSoFar rounds into its loop: all
\* subtasks but the last are collected, the last is in its worker call.
LongRunInit ==
  /\ max_workers = 2
  /\ max_planner_iterations = MaxIterationsCfg
  /\ reconciler_enabled = TRUE
  /\ pc = "loop"
  /\ running = TRUE
  /\ iteration = 1
  /\ planning_done = FALSE
  /\ consecutive_errors = 0
  /\ backoff_s = 0
  /\ all_handoffs = <<>>
  /\ handoffs_since_last_plan = <<>>
  /\ pending_handoffs = <<>>
  /\ active_tasks = {"t1"}
  /\ dispatched_ids = {"t1"}
  /\ all_tasks = << MkTask("t1", "", BigScope) >>
  /\ task_counter = 1
  /\ injected_tasks = <<>>
  /\ empty_plan_nudges = 0
  /\ nudge_pending = FALSE
  /\ semaphore = 1
  /\ active_count = 1
  /\ procs =
       << [ MkProc(MkTask("t1", "", BigScope), 0, 0) EXCEPT
              !.st = "sp_loop",
              !.iteration = DecomposedSoFar,
              !.all_handoffs = [k \in 1..(DecomposedSoFar - 1) |-> RoundHandoff(k)],
              !.active = {RoundTask(DecomposedSoFar).id},
              !.dispatched = { RoundTask(k).id : k \in 1..DecomposedSoFar },
              !.subtasks = [k \in 1..DecomposedSoFar |-> RoundTask(k)] ],
          [ MkProc(RoundTask(DecomposedSoFar), 1, 1) EXCEPT !.st = "running" ] >>
  /\ files = {MainPy}
  /\ fix_counter = 0
  /\ sweeps = 0
  /\ stopped = FALSE
  /\ faults = 0
  /\ plan_calls = 1
  /\ worker_calls = DecomposedSoFar
  /\ empty_streak = 0
  /\ nudged_in_streak = 0
  /\ exit_reason = "none"
  /\ WorkerIdle
  /\ BusIdle
  /\ ParseIdle
  /\ DeltaIdle
  /\ ConvIdle
  /\ IdsIdle

\* The runs of the engine from their start, and from the long decomposition.
LongRunSpec == (Init \/ LongRunInit) /\ [][Next]_vars

\* ------------------------------------------------------- one worker call
\* Paths a worker response may name in its file operations.
LogoPng == <<"l", "o", "g", "o", ".", "p", "n", "g">>
LogoUpper == <<"l", "o", "g", "o", ".", "P", "N", "G">>
LogoSlash == <<"l", "o", "g", "o", ".", "p", "n", "g", "/">>
WorkerPaths == {MainPy, LogoPng, LogoUpper, LogoSlash}

\* asset_extensions of WorkerPool._is_asset_file
ASSET_EXTENSIONS ==
  { <<".","p","n","g">>, <<".","j","p","g">>, <<".","j","p","e","g">>,
    <<".","g","i","f">>, <<".","b","m","p">>, <<".","s","v","g">>,
    <<".","i","c","o">>, <<".","w","e","b","p">>, <<".","t","t","f">>,
    <<".","o","t","f">>, <<".","w","o","f","f">>, <<".","w","o","f","f","2">>,
    <<".","e","o","t">>, <<".","m","p","3">>, <<".","w","a","v">>,
    <<".","o","g","g">>, <<".","f","l","a","c">>, <<".","a","a","c">>,
    <<".","m","p","4">>, <<".","a","v","i">>, <<".","m","o","v">>,
    <<".","w","e","b","m">> }

\* WorkerPool._is_asset_file: the extension test on the path as the LLM wrote it.
IsAssetFile(path) == Extension(path) \in ASSET_EXTENSIONS

\* `self.output_dir / op.path`: pathlib drops the trailing slashes of the
\* joined path, so the file written for "logo.png/" is logo.png.
RECURSIVE Target(_)
Target(path) ==
  IF Len(path) > 1 /\ path[Len(path)] = "/"
  THEN Target(SubSeq(path, 1, Len(path) - 1))
  ELSE path

\* Exceptions of a worker call: RateLimitError and APIError of client.complete,
\* OSError of target.write_text.
RateLimitError == [type |-> "RateLimitError", msg |-> "429 quota"]
APIError == [type |-> "APIError", msg |-> "500 internal"]
WriteError == [type |-> "OSError", msg |-> "is a directory"]

\* The task of the worker call followed in detail.
WTaskId == "task-001"

\* Entries the LLM may put in file_operations; one lacks its "content" key.
RawOps ==
  { [path |-> q, has_content |-> TRUE] : q \in WorkerPaths }
    \cup { [path |-> MainPy, has_content |-> FALSE] }

\* The texts client.complete may return, by what parse_worker_response makes
\* of them: no JSON object at all, a JSON object (status "" when the handoff
\* has no "status" key), or malformed JSON that is salvaged (status "" when the
\* text has no "status" string).
WorkerResponses ==
  { [kind |-> "nojson", status |-> "", files_changed |-> <<>>, concerns |-> <<>>,
     ops |-> <<>>] }
    \cup { [kind |-> "json", status |-> st, files_changed |-> fc, concerns |-> cs,
            ops |-> ops] :
             st \in {"", "complete", "failed"},
             fc \in {<<>>, <<MainPy>>, <<LogoPng>>},
             cs \in {<<>>, <<"untested">>},
             ops \in SeqsUpTo(RawOps, MaxPlanLen) }
    \cup { [kind |-> "malformed", status |-> st, files_changed |-> <<>>,
            concerns |-> <<>>, ops |-> ops] :
             st \in {"", "failed"}, ops \in SeqsUpTo(RawOps, MaxPlanLen) }

\* The file operations kept from the raw entries: those with "path" and "content".
FileOperations(ops) ==
  LET F[k \in 0..Len(ops)] ==
        IF k = 0 THEN <<>>
        ELSE IF ops[k].has_content THEN Append(F[k-1], ops[k].path) ELSE F[k-1]
  IN F[Len(ops)]

\* parsing._salvage_worker_response
SalvageWorkerResponse(resp, tid) ==
  LET fops == FileOperations(resp.ops)
      status == IF resp.status # "" THEN resp.status
                ELSE IF fops # <<>> THEN "partial" ELSE "failed"
  IN [ handoff |-> WHandoff(tid, status, "Salvaged", fops,
                            <<"Worker response was malformed">>),
       file_operations |-> fops ]

\* parsing.parse_worker_response
ParseWorkerResponse(resp, tid) ==
  IF resp.kind = "nojson"
  THEN [ handoff |-> WHandoff(tid, "failed", "No JSON object in worker response",
                              <<>>, <<"No JSON object in worker response">>),
         file_operations |-> <<>> ]
  ELSE IF resp.kind = "malformed" THEN SalvageWorkerResponse(resp, tid)
  ELSE [ handoff |-> WHandoff(tid,
                              IF resp.status = "" THEN "complete" ELSE resp.status,
                              "", resp.files_changed, resp.concerns),
         file_operations |-> FileOperations(resp.ops) ]

\* The loop over result.file_operations: asset paths are skipped, the others
\* written; write_text raises at operation failAt (0: at none).
ApplyFileOperations(fops, failAt) ==
  LET F[k \in 0..Len(fops)] ==
        IF k = 0 THEN [written |-> {}, blocked |-> {}, failed |-> FALSE]
        ELSE LET prev == F[k-1]
             IN IF prev.failed THEN prev
                ELSE IF IsAssetFile(fops[k]) THEN [prev EXCEPT !.blocked = @ \cup {fops[k]}]
                ELSE IF k = failAt THEN [prev EXCEPT !.failed = TRUE]
                ELSE [prev EXCEPT !.written = @ \cup {Target(fops[k])}]
  IN F[Len(fops)]

\* WorkerPool._failure_handoff
WFailureHandoff(tid, error) ==
  WHandoff(tid, "failed", "Worker failed: " \o error.msg, <<>>, <<error.msg>>)

\* `except RateLimitError` taken for every exception of the first attempt.
RetriesOn_AnyError(error) == TRUE

\* `except RateLimitError`: the exceptions of the first attempt that are retried.
RetriesOn(error) == error.type = "RateLimitError"

\* EngineEvent(type=TASK_STARTED, task_id) and
\* EngineEvent(type=TASK_COMPLETED, task_id, status) of _execute_single.
TaskStarted(tid) == [type |-> "task_started", task_id |-> tid, status |-> ""]
TaskCompleted(tid, status) ==
  [type |-> "task_completed", task_id |-> tid, status |-> status]

\* A call of execute_task ends without giving its slot back.
Release_Leaks(free) == free

\* The end of `async with self.semaphore`: the slot is given back.
Release(free) == free + 1

\* execute_task with a free slot: the slot is taken, _active_count counted up,
\* then _execute_single up to its first `await self.client.complete(messages)`.
WPrepare ==
  /\ wpc = "idle"
  /\ CanAcquire
  /\ semaphore' = semaphore - 1
  /\ active_count' = active_count + 1
  /\ wpc' = "call1"
  /\ llm_calls' = llm_calls + 1
  /\ wevents' = Append(wevents, TaskStarted(WTaskId))
  /\ UNCHANGED << written, blocked, applied, whandoff, first_error, retry_error >>
  /\ UNCHANGED << plannerButPool, busVars, parseVars, deltaVars, convVars, idVars >>

\* Reading the project state raises before the try block: the exception
\* leaves execute_task, whose slot is taken and given back in the same step.
WPrepareRaise ==
  /\ wpc = "idle"
  /\ CanAcquire
  /\ semaphore' = Release(semaphore - 1)
  /\ active_count' = (active_count + 1) - 1
  /\ wpc' = "raised"
  /\ UNCHANGED << llm_calls, written, blocked, applied, whandoff, first_error,
                  retry_error, wevents >>
  /\ UNCHANGED << plannerButPool, busVars, parseVars, deltaVars, convVars, idVars >>

\* A call of client.complete returns resp: the response is parsed, its file
\* operations are applied and the handoff is returned; an exception of
\* write_text is caught by the except branch of the attempt.  Only the first
\* attempt emits TASK_COMPLETED, after its last write.
WComplete(resp, failAt, attempt) ==
  LET result == ParseWorkerResponse(resp, WTaskId)
      app == ApplyFileOperations(result.file_operations, failAt)
  IN /\ failAt \in 0..Len(result.file_operations)
     /\ failAt > 0 => ~IsAssetFile(result.file_operations[failAt])
     /\ wpc' = "returned"
     /\ written' = written \cup app.written
     /\ blocked' = blocked \cup app.blocked
     /\ applied' = applied \o result.file_operations
     /\ whandoff' = IF app.failed THEN WFailureHandoff(WTaskId, WriteError)
                    ELSE result.handoff
     /\ IF attempt = 1
        THEN /\ first_error' = IF app.failed THEN WriteError ELSE first_error
             /\ UNCHANGED retry_error
        ELSE /\ retry_error' = IF app.failed THEN WriteError ELSE retry_error
             /\ UNCHANGED first_error
     /\ wevents' = IF attempt = 1 /\ ~app.failed
                    THEN Append(wevents, TaskCompleted(WTaskId, result.handoff.status))
                    ELSE wevents
     /\ semaphore' = Release(semaphore)
     /\ active_count' = active_count - 1
     /\ UNCHANGED llm_calls
     /\ UNCHANGED << plannerButPool, busVars, parseVars, deltaVars, convVars, idVars >>

\* The first call returns a response.
WFirstReturn(resp, failAt) ==
  /\ wpc = "call1"
  /\ WComplete(resp, failAt, 1)

\* The first call raises: a rate limit leads to the backoff sleep, during which
\* the slot stays taken, any other exception to the failure handoff.
WFirstFail(error) ==
  /\ wpc = "call1"
  /\ first_error' = error
  /\ IF RetriesOn(error)
     THEN /\ wpc' = "backoff"
          /\ UNCHANGED << whandoff, semaphore, active_count >>
     ELSE /\ wpc' = "returned"
          /\ whandoff' = WFailureHandoff(WTaskId, error)
          /\ semaphore' = Release(semaphore)
          /\ active_count' = active_count - 1
  /\ UNCHANGED << llm_calls, written, blocked, applied, retry_error, wevents >>
  /\ UNCHANGED << plannerButPool, busVars, parseVars, deltaVars, convVars, idVars >>

\* `await asyncio.sleep(10)` ends and the retry call is issued.
WBackoffDone ==
  /\ wpc = "backoff"
  /\ wpc' = "call2"
  /\ llm_calls' = llm_calls + 1
  /\ UNCHANGED << written, blocked, applied, whandoff, first_error, retry_error,
                  wevents >>
  /\ UNCHANGED << plannerVars, busVars, parseVars, deltaVars, convVars, idVars >>

\* The retry call returns a response.
WRetryReturn(resp, failAt) ==
  /\ wpc = "call2"
  /\ WComplete(resp, failAt, 2)

\* The retry call raises: `except Exception as e2`.
WRetryFail(error) ==
  /\ wpc = "call2"
  /\ retry_error' = error
  /\ wpc' = "returned"
  /\ whandoff' = WFailureHandoff(WTaskId, error)
  /\ semaphore' = Release(semaphore)
  /\ active_count' = active_count - 1
  /\ UNCHANGED << llm_calls, written, blocked, applied, first_error, wevents >>
  /\ UNCHANGED << plannerButPool, busVars, parseVars, deltaVars, convVars, idVars >>

WorkerInit ==
  /\ PlannerInit /\ max_workers = 1 /\ max_planner_iterations = 1
  /\ reconciler_enabled
  /\ WorkerIdle
  /\ BusIdle
  /\ ParseIdle
  /\ DeltaIdle
  /\ ConvIdle
  /\ IdsIdle

WorkerNext ==
  \/ WPrepare
  \/ WPrepareRaise
  \/ \E resp \in WorkerResponses : \E failAt \in 0..MaxPlanLen : WFirstReturn(resp, failAt)
  \/ \E error \in {RateLimitError, APIError} : WFirstFail(error)
  \/ WBackoffDone
  \/ \E resp \in WorkerResponses : \E failAt \in 0..MaxPlanLen : WRetryReturn(resp, failAt)
  \/ \E error \in {RateLimitError, APIError} : WRetryFail(error)

WorkerSpec == WorkerInit /\ [][WorkerNext]_vars

\* The call makes progress: each LLM call returns or raises, the backoff sleep
\* ends.
WorkerFairSpec == WorkerInit /\ [][WorkerNext]_vars /\ WF_vars(WorkerNext)

\* --------------------------------------------------------------- EventBus
\* An event is named by its rank in the order of the emit calls.  A subscriber
\* is its queue and the events its consumer has taken from it.
MkSubscriber == [queue |-> <<>>, received |-> <<>>]

\* asyncio.Queue.full() of a queue that is never full.
Full_Never(q) == FALSE

\* asyncio.Queue.full() of a queue built with maxsize=1000
Full(q) == Len(q) >= QUEUE_MAXSIZE

\* `try: q.put_nowait(event) except asyncio.QueueFull: pass`
PutNowait(q, event) == IF Full(q) THEN q ELSE Append(q, event)

\* EventBus.emit(event): one call, which has no await.
Emit ==
  /\ bus_ops < MaxBusOps
  /\ bus_ops' = bus_ops + 1
  /\ emitted' = emitted + 1
  /\ subscribers' =
       [i \in 1..Len(subscribers) |->
          [subscribers[i] EXCEPT !.queue = PutNowait(@, emitted + 1)]]
  /\ UNCHANGED << plannerVars, workerVars, parseVars, deltaVars, convVars, idVars >>

\* Backlog consecutive calls of emit by one caller, nothing running in
\* between: each queue takes the events for which it is not yet full.
EmitBurst ==
  /\ bus_ops < MaxBusOps
  /\ bus_ops' = bus_ops + 1
  /\ emitted' = emitted + Backlog
  /\ subscribers' =
       [i \in 1..Len(subscribers) |->
          LET q == subscribers[i].queue
              taken == Cardinality({j \in 1..Backlog :
                                      ~Full(q \o [k \in 1..(j-1) |-> emitted + k])})
          IN [subscribers[i] EXCEPT
                !.queue = q \o [k \in 1..taken |-> emitted + k]]]
  /\ UNCHANGED << plannerVars, workerVars, parseVars, deltaVars, convVars, idVars >>

\* EventBus.subscribe
Subscribe ==
  /\ bus_ops < MaxBusOps
  /\ Len(subscribers) < MaxSubscribers
  /\ bus_ops' = bus_ops + 1
  /\ subscribers' = Append(subscribers, MkSubscriber)
  /\ UNCHANGED emitted
  /\ UNCHANGED << plannerVars, workerVars, parseVars, deltaVars, convVars, idVars >>

\* EventBus.unsubscribe(q) for the i-th queue of the list; i = 0 is a queue
\* that is not in the list (ValueError, ignored).
Unsubscribe(i) ==
  /\ bus_ops < MaxBusOps
  /\ bus_ops' = bus_ops + 1
  /\ subscribers' = IF i = 0 THEN subscribers
                    ELSE SubSeq(subscribers, 1, i - 1)
                           \o SubSeq(subscribers, i + 1, Len(subscribers))
  /\ UNCHANGED emitted
  /\ UNCHANGED << plannerVars, workerVars, parseVars, deltaVars, convVars, idVars >>

\* The consumer of the i-th queue takes its oldest event (`await queue.get()`).
Get(i) ==
  /\ bus_ops < MaxBusOps
  /\ subscribers[i].queue # <<>>
  /\ bus_ops' = bus_ops + 1
  /\ subscribers' = [subscribers EXCEPT
                       ![i].queue = Tail(@),
                       ![i].received = Append(@, subscribers[i].queue[1])]
  /\ UNCHANGED emitted
  /\ UNCHANGED << plannerVars, workerVars, parseVars, deltaVars, convVars, idVars >>

BusInit ==
  /\ PlannerInit /\ max_workers = 1 /\ max_planner_iterations = 1
  /\ reconciler_enabled
  /\ WorkerIdle
  /\ BusIdle
  /\ ParseIdle
  /\ DeltaIdle
  /\ ConvIdle
  /\ IdsIdle

BusNext ==
  \/ Emit
  \/ EmitBurst
  \/ Subscribe
  \/ \E i \in 0..Len(subscribers) : Unsubscribe(i)
  \/ \E i \in 1..Len(subscribers) : Get(i)

BusSpec == BusInit /\ [][BusNext]_vars

\* ------------------------------------------------ the text of a response
\* A response text is a sequence of tokens, each standing for the characters
\* it names: the JSON punctuation "{" "}" "[" "]" ":" ",", the double quote
\* "q", the literal newline "nl", the escape pairs "eq" (backslash, quote) and
\* "enl" (backslash, n), the markdown fence "fence" (three backquotes), the
\* word "null", the letter "w", and the key and value words of a worker
\* response.  A decoded string uses the same tokens for its characters.
ContentChars == {"w", "fence", "{", "}", "q", "nl"}

\* The contents of a file operation: every string of up to MaxContentLen
\* characters, and the strings that put up to MaxFencedLen characters between
\* two fences.
FileContents ==
  SeqsUpTo(ContentChars, MaxContentLen)
    \cup { <<"fence">> \o c \o <<"fence">> : c \in SeqsUpTo(ContentChars, MaxFencedLen) }

\* The handoff member of the decoded object: absent, an object with a status,
\* a string, or an object whose files_changed is null.
HandoffStatuses == {"complete", "failed"}
HandoffShapes == {"absent", "string", "nullfc"} \cup HandoffStatuses
\* The file_operations member: absent, an empty list, or one operation.
OpsShapes == {"absent", "empty", "one"}

\* json.dumps of a string body: quote and newline become escape pairs.
EscapeChar(c) == IF c = "q" THEN "eq" ELSE IF c = "nl" THEN "enl" ELSE c
Escape(s) == [k \in 1..Len(s) |-> EscapeChar(s[k])]
\* What an LLM writes when it leaves the newlines of a content literal.
EscapeQuotes(s) == [k \in 1..Len(s) |-> IF s[k] = "q" THEN "eq" ELSE s[k]]
\* json.loads of a string body.
UnescapeChar(c) == IF c = "eq" THEN "q" ELSE IF c = "enl" THEN "nl" ELSE c
Unescape(s) == [k \in 1..Len(s) |-> UnescapeChar(s[k])]

\* The text of one file operation object up to the body of its content
\* string, and after it.
OpPrefix ==
  << "{", "q", "path", "q", ":", "q", "main.py", "q", ",",
     "q", "content", "q", ":", "q" >>
OpSuffix == << "q", "}" >>

HandoffMember(h) ==
  IF h = "string" THEN << "q", "handoff", "q", ":", "q", "w", "q" >>
  ELSE IF h = "nullfc"
  THEN << "q", "handoff", "q", ":", "{", "q", "files_changed", "q", ":", "null", "}" >>
  ELSE << "q", "handoff", "q", ":", "{", "q", "status", "q", ":", "q", h, "q", "}" >>

\* The text of a response object up to the content body, and after it (the
\* body is only present when there is one file operation).
TextPrefix(h, o) ==
  <<"{">>
    \o (IF h = "absent" THEN <<>> ELSE HandoffMember(h))
    \o (IF h # "absent" /\ o # "absent" THEN <<",">> ELSE <<>>)
    \o (IF o = "absent" THEN <<>> ELSE << "q", "file_operations", "q", ":", "[" >>)
    \o (IF o = "one" THEN OpPrefix ELSE <<>>)
TextSuffix(o) ==
  (IF o = "one" THEN OpSuffix ELSE <<>>)
    \o (IF o = "absent" THEN <<>> ELSE <<"]">>)
    \o <<"}">>

\* json.dumps of the object {handoff, file_operations}.
Serialize(v) ==
  TextPrefix(v.handoff, v.ops)
    \o (IF v.ops = "one" THEN Escape(v.content) ELSE <<>>)
    \o TextSuffix(v.ops)

\* The same text as an LLM may send it: with the newlines of the content left
\* literal, cut off `cut` tokens before its end, wrapped in a markdown fence.
SentText(v, d) ==
  LET body == IF d.literal THEN EscapeQuotes(v.content) ELSE Escape(v.content)
      full == TextPrefix(v.handoff, v.ops)
                \o (IF v.ops = "one" THEN body ELSE <<>>)
                \o TextSuffix(v.ops)
      kept == SubSeq(full, 1, Len(full) - d.cut)
  IN IF d.wrapped THEN <<"fence", "nl">> \o kept \o <<"nl", "fence">> ELSE kept

\* Number of characters of a token.
CharLen(c) ==
  CASE c = "fence" -> 3 [] c \in {"eq", "enl"} -> 2 [] c = "null" -> 4
    [] c \in {"handoff", "main.py"} -> 7 [] c = "file_operations" -> 15
    [] c \in {"status", "failed"} -> 6 [] c = "files_changed" -> 13
    [] c = "path" -> 4 [] c = "content" -> 7 [] c = "complete" -> 8
    [] OTHER -> 1

\* ---------------------------------------------------------- parsing.py
NotJson == [kind |-> "none"]

\* A string body json.loads accepts: no bare quote, no control character.
IsStringBody(s) == \A k \in 1..Len(s) : s[k] \notin {"q", "nl"}

\* Whether the scan of _fix_literal_newlines_in_strings and of
\* _fix_truncated_json is inside a string after the first k tokens of t: a
\* quote opens a string (also the quote of an escape pair met outside one), and
\* inside a string only a bare quote closes it.
InString(t) ==
  LET F[k \in 0..Len(t)] ==
        IF k = 0 THEN FALSE
        ELSE IF F[k-1] THEN t[k] # "q" ELSE t[k] \in {"q", "eq"}
  IN F

\* The tokens of t at the positions of I, in order.
KeepAt(t, I) ==
  LET F[k \in 0..Len(t)] ==
        IF k = 0 THEN <<>>
        ELSE IF k \in I THEN Append(F[k-1], t[k]) ELSE F[k-1]
  IN F[Len(t)]

\* json.loads on a text without whitespace between its JSON tokens: the text
\* of a response object of one of the shapes above, or of one file operation
\* object; every other text over the tokens is not JSON.
JsonValue(t) ==
  IF \E h \in HandoffShapes : \E o \in {"absent", "empty"} :
       t = TextPrefix(h, o) \o TextSuffix(o)
  THEN LET hs == CHOOSE hs \in HandoffShapes \X {"absent", "empty"} :
                   t = TextPrefix(hs[1], hs[2]) \o TextSuffix(hs[2])
       IN [kind |-> "response", handoff |-> hs[1], ops |-> hs[2], content |-> <<>>]
  ELSE IF \E h \in HandoffShapes :
            LET pre == TextPrefix(h, "one")
                suf == TextSuffix("one")
            IN /\ Len(t) >= Len(pre) + Len(suf)
               /\ SubSeq(t, 1, Len(pre)) = pre
               /\ SubSeq(t, Len(t) - Len(suf) + 1, Len(t)) = suf
               /\ IsStringBody(SubSeq(t, Len(pre) + 1, Len(t) - Len(suf)))
  THEN LET h == CHOOSE h \in HandoffShapes :
                  /\ Len(t) >= Len(TextPrefix(h, "one")) + Len(TextSuffix("one"))
                  /\ SubSeq(t, 1, Len(TextPrefix(h, "one"))) = TextPrefix(h, "one")
       IN [kind |-> "response", handoff |-> h, ops |-> "one",
           content |-> Unescape(SubSeq(t, Len(TextPrefix(h, "one")) + 1,
                                       Len(t) - Len(TextSuffix("one"))))]
  ELSE IF /\ Len(t) >= Len(OpPrefix) + Len(OpSuffix)
          /\ SubSeq(t, 1, Len(OpPrefix)) = OpPrefix
          /\ SubSeq(t, Len(t) - Len(OpSuffix) + 1, Len(t)) = OpSuffix
          /\ IsStringBody(SubSeq(t, Len(OpPrefix) + 1, Len(t) - Len(OpSuffix)))
  THEN [kind |-> "op",
        content |-> Unescape(SubSeq(t, Len(OpPrefix) + 1, Len(t) - Len(OpSuffix)))]
  ELSE NotJson

\* json.loads: whitespace outside the strings is skipped.
JsonLoads(t) ==
  LET ins == InString(t)
  IN JsonValue(KeepAt(t, { k \in 1..Len(t) : ins[k-1] \/ t[k] # "nl" }))

\* _try_json_loads(text) is not None
Loads(t) == JsonLoads(t) # NotJson

\* _fix_literal_newlines_in_strings
FixLiteralNewlinesInStrings(t) ==
  LET ins == InString(t)
  IN [k \in 1..Len(t) |-> IF ins[k-1] /\ t[k] = "nl" THEN "enl" ELSE t[k]]

\* re.sub(r',\s*([}\]])', r'\1', text): a comma followed, after whitespace, by
\* a closing brace or bracket is removed together with the whitespace.
RemoveTrailingCommas(t) ==
  LET Closes(k) == \E j \in (k+1)..Len(t) :
                     /\ t[j] \in {"}", "]"}
                     /\ \A m \in (k+1)..(j-1) : t[m] = "nl"
      Dropped(k) == \/ t[k] = "," /\ Closes(k)
                    \/ /\ t[k] = "nl"
                       /\ \E c \in 1..(k-1) :
                            /\ t[c] = "," /\ Closes(c)
                            /\ \A m \in (c+1)..k : t[m] = "nl"
  IN KeepAt(t, { k \in 1..Len(t) : ~Dropped(k) })

\* str.strip() and str.rstrip(): the newline is the only whitespace.
RStrip(t) ==
  IF \A k \in 1..Len(t) : t[k] = "nl" THEN <<>>
  ELSE SubSeq(t, 1, CHOOSE e \in 1..Len(t) :
                      t[e] # "nl" /\ \A m \in (e+1)..Len(t) : t[m] = "nl")
Strip(t) ==
  LET r == RStrip(t)
  IN IF r = <<>> THEN <<>>
     ELSE SubSeq(r, CHOOSE b \in 1..Len(r) :
                      r[b] # "nl" /\ \A m \in 1..(b-1) : r[m] = "nl", Len(r))

Repeat(c, n) == [k \in 1..n |-> c]
Max0(n) == IF n > 0 THEN n ELSE 0

\* _fix_truncated_json; <<>> stands for None.
FixTruncatedJson(t) ==
  LET ins == InString(t)
      Count(c) == Cardinality({ k \in 1..Len(t) : ~ins[k-1] /\ t[k] = c })
      open_braces == Count("{") - Count("}")
      open_brackets == Count("[") - Count("]")
  IN IF open_braces <= 0 /\ open_brackets <= 0 THEN <<>>
     ELSE RStrip(t)
            \o (IF ins[Len(t)] THEN <<"q">> ELSE <<>>)
            \o Repeat("]", Max0(open_brackets))
            \o Repeat("}", Max0(open_braces))

\* _repair_json
RepairJson(t) ==
  IF Loads(t) THEN t
  ELSE LET repaired == FixLiteralNewlinesInStrings(t)
           repaired2 == RemoveTrailingCommas(repaired)
           repaired3 == FixTruncatedJson(repaired2)
       IN IF Loads(repaired) THEN repaired
          ELSE IF Loads(repaired2) THEN repaired2
          ELSE IF repaired3 # <<>> /\ Loads(repaired3) THEN repaired3
          ELSE repaired

\* The position of the first token c of t at or after position `from`, 0 if
\* there is none.
FindFrom(t, c, from) ==
  IF \E k \in from..Len(t) : t[k] = c
  THEN CHOOSE k \in from..Len(t) : t[k] = c /\ \A m \in from..(k-1) : t[m] # c
  ELSE 0

\* `'"' in inner[:20]`
QuoteInFirst20(inner) ==
  LET Before[k \in 0..Len(inner)] ==
        IF k = 0 THEN 0 ELSE Before[k-1] + CharLen(inner[k])
  IN \E k \in 1..Len(inner) :
       \/ inner[k] = "q" /\ Before[k-1] < 20
       \/ inner[k] = "eq" /\ Before[k-1] + 1 < 20

\* One round of _strip_markdown_fences: the text between the first two fences
\* replaces the text when it starts with a brace or bracket or has a quote
\* among its first 20 characters.  `stop` ends the loop.
StripRound(t) ==
  LET a == FindFrom(t, "fence", 1)
      b == IF a = 0 THEN 0 ELSE FindFrom(t, "fence", a + 1)
      inner == Strip(SubSeq(t, a + 1, b - 1))
  IN IF a = 0 \/ b = 0 THEN [text |-> t, stop |-> TRUE]
     ELSE IF inner # <<>> /\ (inner[1] \in {"{", "["} \/ QuoteInFirst20(inner))
     THEN [text |-> inner, stop |-> FALSE]
     ELSE [text |-> t, stop |-> TRUE]

\* _strip_markdown_fences
StripMarkdownFences(t) ==
  LET F[n \in 0..3] ==
        IF n = 0 THEN [text |-> t, stop |-> FALSE]
        ELSE IF F[n-1].stop THEN F[n-1] ELSE StripRound(F[n-1].text)
  IN F[3].text

MalformedConcern == "Worker response was malformed"

\* WorkerResult: the handoff's status and concerns, and the file operations.
WResult(status, concerns, ops) ==
  [raised |-> FALSE, status |-> status, concerns |-> concerns,
   file_operations |-> ops]
\* parse_worker_response left by an exception.
WRaised(type) ==
  [raised |-> TRUE, status |-> type, concerns |-> <<>>, file_operations |-> <<>>]
FileOp(content) == [path |-> "main.py", content |-> content]

\* _make_failure_result
MakeFailureResult(reason) == WResult("failed", <<reason>>, <<>>)

\* Strategy 1 of _salvage_worker_response: the objects at depth 0 of the text
\* after `"file_operations": [`, each decoded directly or after repair.
SalvageObjects(remainder) ==
  LET ins == InString(remainder)
      S[k \in 0..Len(remainder)] ==
        IF k = 0 THEN [depth |-> 0, start |-> 0, ops |-> <<>>, stop |-> FALSE]
        ELSE LET p == S[k-1]
                 ch == remainder[k]
             IN IF p.stop \/ ins[k-1] \/ ch \notin {"{", "}", "]"} THEN p
                ELSE IF ch = "{"
                THEN [p EXCEPT !.depth = @ + 1,
                               !.start = IF p.depth = 0 THEN k ELSE @]
                ELSE IF ch = "}"
                THEN IF p.depth - 1 = 0 /\ p.start # 0
                     THEN LET obj_str == SubSeq(remainder, p.start, k)
                              raw == IF Loads(obj_str) THEN JsonLoads(obj_str)
                                     ELSE JsonLoads(RepairJson(obj_str))
                          IN [p EXCEPT !.depth = 0, !.start = 0,
                                       !.ops = IF raw.kind = "op"
                                               THEN Append(@, FileOp(raw.content))
                                               ELSE @]
                     ELSE [p EXCEPT !.depth = @ - 1]
                ELSE IF p.depth = 0 THEN [p EXCEPT !.stop = TRUE] ELSE p
  IN S[Len(remainder)].ops

\* The position after the first occurrence of the token sequence `pat` in t,
\* 0 if there is none.
EndOfFirst(t, pat) ==
  LET At(k) == k + Len(pat) - 1 <= Len(t) /\ SubSeq(t, k, k + Len(pat) - 1) = pat
  IN IF \E k \in 1..Len(t) : At(k)
     THEN (CHOOSE k \in 1..Len(t) : At(k) /\ \A m \in 1..(k-1) : ~At(m)) + Len(pat)
     ELSE 0

\* Strategy 2: the content string that follows `{"path": "...", "content": "`,
\* up to its closing quote or the end of the text (_find_string_end), decoded
\* by json.loads or, when that fails, by replacing the escaped newlines.
SalvageByPattern(content) ==
  LET start == EndOfFirst(content, OpPrefix)
      q == IF start = 0 THEN 0 ELSE FindFrom(content, "q", start)
      end == IF q = 0 THEN Len(content) + 1 ELSE q
      raw_content == SubSeq(content, start, end - 1)
      decoded == IF IsStringBody(raw_content) THEN Unescape(raw_content)
                 ELSE [k \in 1..Len(raw_content) |->
                         IF raw_content[k] = "enl" THEN "nl" ELSE raw_content[k]]
  IN IF start # 0 /\ end > start THEN << FileOp(decoded) >> ELSE <<>>

\* The status a salvage takes from the text: the string that follows
\* `"status": "`, "" if there is none.
StatusInText(content) ==
  LET after == EndOfFirst(content, << "q", "status", "q", ":", "q" >>)
  IN IF /\ after # 0
        /\ after + 1 <= Len(content)
        /\ content[after] \notin {"q", "eq"}
        /\ content[after + 1] = "q"
     THEN content[after]
     ELSE ""

\* _salvage_worker_response
SalvageWorkerText(content) ==
  LET fo == EndOfFirst(content, << "q", "file_operations", "q", ":", "[" >>)
      first == IF fo = 0 THEN <<>>
               ELSE SalvageObjects(SubSeq(content, fo, Len(content)))
      file_operations == IF first # <<>> THEN first ELSE SalvageByPattern(content)
      found == StatusInText(content)
      status == IF found # "" THEN found
                ELSE IF file_operations # <<>> THEN "partial" ELSE "failed"
  IN WResult(status, <<MalformedConcern>>, file_operations)

\* The last position of token c in t, 0 if there is none.
RFind(t, c) ==
  IF \E k \in 1..Len(t) : t[k] = c
  THEN CHOOSE k \in 1..Len(t) : t[k] = c /\ \A m \in (k+1)..Len(t) : t[m] # c
  ELSE 0

\* parse_worker_response
ParseWorkerText(content) ==
  LET cleaned == StripMarkdownFences(Strip(content))
      obj_start == FindFrom(cleaned, "{", 1)
      obj_end == RFind(cleaned, "}")
      candidate == SubSeq(cleaned, obj_start, obj_end)
      parsed == IF Loads(candidate) THEN JsonLoads(candidate)
                ELSE JsonLoads(RepairJson(candidate))
  IN IF obj_start = 0 \/ obj_end <= obj_start
     THEN MakeFailureResult("No JSON object in worker response")
     ELSE IF parsed = NotJson THEN SalvageWorkerText(content)
     ELSE IF parsed.kind = "op" \/ parsed.handoff = "absent"
     THEN WResult("complete", <<>>,
                  IF parsed.kind = "response" /\ parsed.ops = "one"
                  THEN << FileOp(parsed.content) >> ELSE <<>>)
     ELSE IF parsed.handoff = "string" THEN WRaised("AttributeError")
     ELSE IF parsed.handoff = "nullfc" THEN WRaised("TypeError")
     ELSE WResult(parsed.handoff, <<>>,
                  IF parsed.ops = "one" THEN << FileOp(parsed.content) >> ELSE <<>>)

\* ------------------------------------------------ one parse of a response
\* The decoded objects an LLM may have meant to send.
ResponseValues ==
  { v \in [handoff : HandoffShapes, ops : OpsShapes, content : FileContents] :
      v.ops # "one" => v.content = <<>> }
\* How the text sent may differ from the serialization of the object.
Damages(v) ==
  { d \in [literal : BOOLEAN, cut : 0..MaxCut, wrapped : BOOLEAN] :
      d.literal => InSeq("nl", v.content) }

\* A worker LLM call has returned the text of pvalue as pdamage describes.
ParseInit ==
  /\ PlannerInit /\ max_workers = 1 /\ max_planner_iterations = 1
  /\ reconciler_enabled
  /\ WorkerIdle
  /\ BusIdle
  /\ DeltaIdle
  /\ ConvIdle
  /\ IdsIdle
  /\ pvalue \in ResponseValues
  /\ pdamage \in Damages(pvalue)
  /\ presult = NotParsed

\* parse_worker_response(response.content, task.id)
ParseWorker ==
  /\ presult = NotParsed
  /\ presult' = ParseWorkerText(SentText(pvalue, pdamage))
  /\ UNCHANGED << pvalue, pdamage >>
  /\ UNCHANGED << plannerVars, workerVars, busVars, deltaVars, convVars, idVars >>

ParseSpec == ParseInit /\ [][ParseWorker]_vars

\* ------------------------------------------- the file tree delta of a plan
\* The paths of the output directory, in the order sorted() gives them.
DeltaPaths == << "a.py", "b.py", "c.py" >>
\* sorted() of a set of paths.
Sorted(S) == SelectSeq(DeltaPaths, LAMBDA f : f \in S)

\* The delta that lists the whole current tree as new.
NewFiles_WholeTree(current_set, prev) == Sorted(current_set)

\* `sorted(current_set - self._prev_file_tree)`
NewFiles(current_set, prev) == Sorted(current_set \ prev)
\* `sorted(self._prev_file_tree - current_set)`
RemovedFiles(current_set, prev) == Sorted(prev \ current_set)

\* A worker writes file f below output_dir.
DWrite(f) ==
  /\ f \notin output_tree
  /\ output_tree' = output_tree \cup {f}
  /\ UNCHANGED << prev_file_tree, state_tree, new_files, removed_files, dpc,
                  diteration, recorded >>
  /\ UNCHANGED << plannerVars, workerVars, busVars, parseVars, convVars, idVars >>

\* File f disappears from output_dir (the engine itself never deletes).
DRemove(f) ==
  /\ f \in output_tree
  /\ output_tree' = output_tree \ {f}
  /\ UNCHANGED << prev_file_tree, state_tree, new_files, removed_files, dpc,
                  diteration, recorded >>
  /\ UNCHANGED << plannerVars, workerVars, busVars, parseVars, convVars, idVars >>

\* Planner._plan up to its LLM call: read_project_state, then the initial
\* message at iteration 0 and the follow-up message with the delta after it.
DPlanBegin ==
  /\ dpc = "idle"
  /\ diteration < MaxDeltaPlans
  /\ state_tree' = output_tree
  /\ IF diteration = 0
     THEN UNCHANGED << new_files, removed_files >>
     ELSE /\ new_files' = NewFiles(output_tree, prev_file_tree)
          /\ removed_files' = RemovedFiles(output_tree, prev_file_tree)
  /\ dpc' = "calling"
  /\ UNCHANGED << output_tree, prev_file_tree, diteration, recorded >>
  /\ UNCHANGED << plannerVars, workerVars, busVars, parseVars, convVars, idVars >>

\* The LLM call returns and _plan completes: the tree it read is recorded,
\* and run_loop increments iteration.
DPlanReturn ==
  /\ dpc = "calling"
  /\ prev_file_tree' = state_tree
  /\ recorded' = state_tree
  /\ diteration' = diteration + 1
  /\ dpc' = "idle"
  /\ UNCHANGED << output_tree, state_tree, new_files, removed_files >>
  /\ UNCHANGED << plannerVars, workerVars, busVars, parseVars, convVars, idVars >>

\* The LLM call raises: _plan is left before it records the tree.
DPlanFail ==
  /\ dpc = "calling"
  /\ dpc' = "idle"
  /\ UNCHANGED << output_tree, prev_file_tree, state_tree, new_files,
                  removed_files, diteration, recorded >>
  /\ UNCHANGED << plannerVars, workerVars, busVars, parseVars, convVars, idVars >>

\* A planner constructed over an output directory that holds any of the paths.
DeltaInit ==
  /\ PlannerInit /\ max_workers = 1 /\ max_planner_iterations = 1
  /\ reconciler_enabled
  /\ WorkerIdle
  /\ BusIdle
  /\ ParseIdle
  /\ ConvIdle
  /\ IdsIdle
  /\ output_tree \in SUBSET SeqToSet(DeltaPaths)
  /\ prev_file_tree = {}
  /\ state_tree = {}
  /\ new_files = <<>>
  /\ removed_files = <<>>
  /\ dpc = "idle"
  /\ diteration = 0
  /\ recorded = {}

DeltaNext ==
  \/ \E f \in SeqToSet(DeltaPaths) : DWrite(f)
  \/ \E f \in SeqToSet(DeltaPaths) : DRemove(f)
  \/ DPlanBegin
  \/ DPlanReturn
  \/ DPlanFail

DeltaSpec == DeltaInit /\ [][DeltaNext]_vars

\* ------------------------------------------ the conversation of the planner
\* sum(len(m.content) for m in self.conversation)
TotalChars(conv) ==
  LET S[k \in 0..Len(conv)] ==
        IF k = 0 THEN 0 ELSE S[k-1] + conv[k].content.chars
  IN S[Len(conv)]

\* `self.conversation[-10:]`
Recent(conv) ==
  IF Len(conv) <= 10 THEN conv ELSE SubSeq(conv, Len(conv) - 9, Len(conv))

\* The synthetic message of compaction; its text names the number of messages
\* removed.
SummaryMsg(removed) == Msg("user", "context_compacted", removed, SmallChars)

\* Planner._maybe_compact_conversation
MaybeCompactConversation(conv) ==
  IF TotalChars(conv) <= CONVERSATION_COMPACTION_CHARS THEN conv
  ELSE LET system_msg == conv[1]
           recent == Recent(conv)
           first == IF Len(conv) > 1 /\ ~InSeq(conv[2], recent)
                    THEN << conv[2] >> ELSE <<>>
       IN << system_msg >> \o first
            \o << SummaryMsg(Len(conv) - Len(recent)) >> \o recent

\* A message of `chars` characters may join the conversation.
Admits(conv, chars) ==
  chars = LargeChars => \A k \in 1..Len(conv) : conv[k].content.chars # LargeChars

\* The user message _plan builds: the initial message at iteration 0, a
\* follow-up message after it (which carries the nudge when one is pending).
PlanMessage(it, nudge, chars) ==
  IF it = 0 THEN Msg("user", "initial", 0, chars)
  ELSE IF nudge THEN Msg("user", "follow_up_nudge", 0, chars)
  ELSE Msg("user", "follow_up", 0, chars)

\* Planner._plan up to its LLM call: the message is built (the follow-up
\* builder clears a pending nudge), appended to the conversation, and the
\* conversation is compacted if it is too long.
CPlanBegin(chars) ==
  /\ cpc = "idle"
  /\ citeration < MaxConvPlans
  /\ Admits(conversation, chars)
  /\ entered' = [conversation |-> conversation,
                nudge_pending |-> conv_nudge_pending]
  /\ LET msg == PlanMessage(citeration, conv_nudge_pending, chars)
     IN /\ sent' = Append(conversation, msg)
        /\ conversation' = MaybeCompactConversation(Append(conversation, msg))
  /\ conv_nudge_pending' = IF citeration > 0 THEN FALSE ELSE conv_nudge_pending
  /\ cpc' = "calling"
  /\ UNCHANGED << citeration, outcome, cfaults >>
  /\ UNCHANGED << plannerVars, workerVars, busVars, parseVars, deltaVars, idVars >>

\* The LLM call returns: the response is appended and run_loop increments
\* iteration; `nudges` tells that run_loop found the plan empty with no source
\* file in the project and sets _nudge_pending (never after the first plan).
CPlanReturn(chars, nudges) ==
  /\ cpc = "calling"
  /\ Admits(conversation, chars)
  /\ nudges => (citeration >= 1 /\ cfaults < MaxConvFaults)
  /\ cfaults' = IF nudges THEN cfaults + 1 ELSE cfaults
  /\ conversation' = Append(conversation, Msg("assistant", "response", 0, chars))
  /\ citeration' = citeration + 1
  /\ conv_nudge_pending' = (nudges \/ conv_nudge_pending)
  /\ outcome' = "returned"
  /\ cpc' = "idle"
  /\ UNCHANGED << entered, sent >>
  /\ UNCHANGED << plannerVars, workerVars, busVars, parseVars, deltaVars, idVars >>

\* The LLM call raises: _plan is left at once, run_loop backs off.
CPlanFail ==
  /\ cpc = "calling"
  /\ cfaults < MaxConvFaults
  /\ cfaults' = cfaults + 1
  /\ outcome' = "raised"
  /\ cpc' = "idle"
  /\ UNCHANGED << conversation, citeration, conv_nudge_pending, entered, sent >>
  /\ UNCHANGED << plannerVars, workerVars, busVars, parseVars, deltaVars, idVars >>

ConvInit ==
  /\ PlannerInit /\ max_workers = 1 /\ max_planner_iterations = 1
  /\ reconciler_enabled
  /\ WorkerIdle
  /\ BusIdle
  /\ ParseIdle
  /\ DeltaIdle
  /\ ConvIdle
  /\ IdsIdle

ConvNext ==
  \/ \E chars \in {SmallChars, LargeChars} : CPlanBegin(chars)
  \/ \E chars \in {SmallChars, LargeChars} : \E nudges \in BOOLEAN :
       CPlanReturn(chars, nudges)
  \/ CPlanFail

ConvSpec == ConvInit /\ [][ConvNext]_vars

\* ------------------------------------------- the subtask ids of one parent
\* The parent task, and the raw subtasks its sub-planner may propose: without
\* an id (in scope, or entirely out of scope), with an id of its own, with an
\* id of the form the engine generates, with a blank description.
IdsParent == MkTask("t1", "", BigScope)
IdsRaw ==
  { [id |-> "", description |-> "do", scope |-> SmallScope],
    SubOutside,
    SubNamed,
    [id |-> "t1-sub-2", description |-> "do", scope |-> SmallScope],
    [id |-> "", description |-> " ", scope |-> SmallScope] }

\* One plan of the sub-planner loop: _build_subtasks on the raw tasks, then
\* _dispatch_subtasks, which adds the ids built to dispatched_ids.  A first plan
\* without subtask ends the decomposition (the parent is run as atomic).
SBuild(raw) ==
  /\ sub_rounds < MaxRounds
  /\ ~(sub_rounds = 1 /\ sub_built = <<>>)
  /\ LET subtasks == BuildSubtasks(raw, IdsParent, sub_dispatched)
     IN /\ sub_built' = subtasks
        /\ sub_dispatched' =
             sub_dispatched \cup { subtasks[k].id : k \in 1..Len(subtasks) }
  /\ sub_raw' = raw
  /\ sub_rounds' = sub_rounds + 1
  /\ UNCHANGED << plannerVars, workerVars, busVars, parseVars, deltaVars,
                  convVars >>

IdsInit ==
  /\ PlannerInit /\ max_workers = 1 /\ max_planner_iterations = 1
  /\ reconciler_enabled
  /\ WorkerIdle
  /\ BusIdle
  /\ ParseIdle
  /\ DeltaIdle
  /\ ConvIdle
  /\ IdsIdle

IdsNext == \E raw \in SeqsUpTo(IdsRaw, MaxPlanLen) : SBuild(raw)

IdsSpec == IdsInit /\ [][IdsNext]_vars

\* ------------------------------------------------------------------ claims
\* C3: every run of the planner loop eventually returns, under fair
\* scheduling, whatever the LLM answers and whatever max_workers and the
\* iteration cap are.
C3_RunLoopReturns == <>(pc = "done")

\* Handoffs in hs that carry task id `id`.
CountFor(hs, id) == Cardinality({ k \in 1..Len(hs) : hs[k].task_id = id })
HandoffIds(hs) == { hs[k].task_id : k \in 1..Len(hs) }

\* C1: when run_loop returns after ending normally, by the iteration cap or by
\* the consecutive-error abort, every id in dispatched_ids has exactly one
\* handoff in all_handoffs, and all_handoffs holds no handoff of an id that
\* was never dispatched.
C1_OneHandoffPerDispatched ==
  (pc = "done" /\ ~stopped) =>
    /\ \A id \in dispatched_ids : CountFor(all_handoffs, id) = 1
    /\ HandoffIds(all_handoffs) \subseteq dispatched_ids

\* run_loop has returned by the iteration cap with the handoff of a worker
\* and the aggregate of a sub-planner among the handoffs recorded.
C1_Witness ==
  /\ pc = "done" /\ ~stopped /\ exit_reason = "cap"
  /\ Cardinality(dispatched_ids) >= 2
  /\ \E k \in 1..Len(all_handoffs) : all_handoffs[k].summary = "worker"
  /\ \E k \in 1..Len(all_handoffs) : all_handoffs[k].summary = "Decomposed"

\* C2: under any interleaving of execute_task calls, the number of tasks
\* holding a slot (active_count) is between 0 and max_workers, and so is the
\* number of worker LLM calls in flight.
C2_ActiveCountBounded ==
  /\ active_count \in 0..max_workers
  /\ Cardinality({ i \in 1..Len(procs) : procs[i].st = "running" }) <= max_workers

\* Every slot is taken by a running subtask while the atomic fallback of a
\* sub-planner waits for one.
C2_Witness ==
  /\ max_workers > 0
  /\ active_count = max_workers
  /\ \E i \in 1..Len(procs) : procs[i].st = "waiting" /\ procs[i].atomic
  /\ \E i \in 1..Len(procs) : procs[i].st = "running" /\ procs[i].parent # 0

\* C4: at a tick the root planner issues a plan LLM call exactly when the pool
\* has free capacity, planning is not marked done, and no plan has succeeded
\* yet, or at least 3 handoffs were collected since the last plan, or no task
\* is active after at least one plan; plan calls are issued at ticks only, and
\* with zero worker capacity none is ever issued.
C4_PlanTrigger ==
  [][ /\ (RootTick /\ running /\ iteration < max_planner_iterations) =>
            ( plan_calls' = plan_calls + 1
              <=> /\ active_count' < max_workers
                  /\ ~planning_done'
                  /\ \/ iteration' = 0
                     \/ Len(handoffs_since_last_plan') >= 3
                     \/ (active_tasks' = {} /\ iteration' > 0) )
      /\ (plan_calls' # plan_calls => RootTick /\ pc' = "plan")
      /\ (max_workers = 0 => plan_calls' = plan_calls) ]_vars

\* A plan call in flight that was issued because 3 handoffs had been collected
\* since the last plan while another task was still active.
C4_Witness ==
  /\ pc = "plan"
  /\ iteration > 0
  /\ Len(handoffs_since_last_plan) >= 3
  /\ active_tasks # {}

\* C5: if the first plan call returns an empty task list, run_loop returns
\* after exactly that one plan call, with dispatched_ids empty, no worker call
\* made and no nudge issued.
C5_FirstPlanEmpty ==
  [][ \A raw \in RootPlans :
        ( /\ PlanReturn(raw)
          /\ plan_calls = 1
          /\ BuildTasksFromRaw(raw, task_counter, dispatched_ids).tasks = <<>> )
        => /\ pc' = "done"
           /\ plan_calls' = 1
           /\ dispatched_ids' = {}
           /\ worker_calls' = 0
           /\ empty_plan_nudges' = 0 /\ ~nudge_pending' /\ nudged_in_streak' = 0 ]_vars

\* run_loop has returned after one plan call that held no task.
C5_Witness ==
  /\ pc = "done" /\ exit_reason = "done"
  /\ plan_calls = 1 /\ iteration = 1
  /\ dispatched_ids = {} /\ procs = <<>>

\* C6: after the first plan, a streak of empty plans with no task active and
\* no source file in the output directory has at most
\* MAX_EMPTY_PLAN_NUDGES + 1 = 4 plans, run_loop returns at the 4th, and the
\* nudge is appended to at most 3 plan messages of the streak.
C6_NudgeStreakBounded ==
  /\ empty_streak <= 4
  /\ (empty_streak = 4 => pc = "done")
  /\ nudged_in_streak <= 3

\* run_loop has returned at the 4th empty plan of a streak, after 3 nudged
\* plan messages.
C6_Witness ==
  /\ pc = "done" /\ exit_reason = "done"
  /\ empty_streak = 4
  /\ nudged_in_streak = 3
  /\ ~ProjectHasSourceFiles(files)

\* C7: a planning iteration that dispatches its planned tasks leaves
\* dispatched_ids a strict superset of what it was, and no step of the run
\* removes an id from dispatched_ids.
C7_DispatchedGrows ==
  [][ /\ dispatched_ids \subseteq dispatched_ids'
      /\ \A raw \in RootPlans :
           ( /\ PlanReturn(raw)
             /\ BuildTasksFromRaw(raw, task_counter, dispatched_ids).tasks # <<>> )
           => dispatched_ids' # dispatched_ids ]_vars

\* By the second plan a proposal of "t1" has been skipped as already
\* dispatched, and two tasks have been dispatched.
C7_Witness ==
  /\ iteration >= 2
  /\ task_counter > Cardinality(dispatched_ids)
  /\ "t1" \in dispatched_ids
  /\ Cardinality(dispatched_ids) >= 2

\* C8: active_tasks gains only the ids of newly dispatched tasks and loses
\* only ids whose handoff is drained from pending_handoffs, so it is always
\* the set of dispatched ids with no handoff in all_handoffs.
C8_ActiveIsUncollected ==
  /\ [](active_tasks = { id \in dispatched_ids : CountFor(all_handoffs, id) = 0 })
  /\ [][ /\ active_tasks' \ active_tasks = dispatched_ids' \ dispatched_ids
         /\ active_tasks \ active_tasks' \subseteq
              { pending_handoffs[k][2].task_id : k \in 1..Len(pending_handoffs) }
         /\ active_tasks \ active_tasks' \subseteq HandoffIds(all_handoffs') ]_vars

\* One task's handoff has been drained while another task is still active
\* with its handoff waiting in pending_handoffs.
C8_Witness ==
  /\ all_handoffs # <<>>
  /\ active_tasks # {}
  /\ pending_handoffs # <<>>
  /\ active_tasks # dispatched_ids

\* C9: every handoff appended to pending_handoffs is eventually drained into
\* all_handoffs, so pending_handoffs is empty when run_loop returns.
C9_PendingDrained == pc = "done" => pending_handoffs = <<>>

\* C10: every subtask a sub-planner dispatches, at any depth and in any
\* iteration, has a scope that is a subset of its parent task's scope.
C10_SubtaskScopeWithinParent ==
  \A i \in 1..Len(procs) :
    procs[i].parent # 0 =>
      SeqToSet(procs[i].task.scope) \subseteq SeqToSet(procs[procs[i].parent].task.scope)

\* A subtask at depth 3 whose response named a file outside its parent's
\* scope and whose scope was cut down to the parent's files.
C10_Witness ==
  \E i \in 1..Len(procs) :
    /\ procs[i].depth = 3
    /\ procs[i].task.scope = <<"a">>

\* C12: after stop() is called during a run the planner issues no new plan
\* call and dispatches no new task, still collects the handoff of every task
\* in flight, and then run_loop returns.
C12_StopDrains ==
  /\ [][stopped => (plan_calls' = plan_calls /\ dispatched_ids' = dispatched_ids)]_vars
  /\ []((pc = "done" /\ stopped) =>
          \A id \in dispatched_ids : CountFor(all_handoffs, id) = 1)

\* C13: every fix task handed to inject_tasks while run_loop is running is
\* dispatched at the next tick unless its id was already dispatched; none is
\* left undispatched when run_loop returns.
C13_InjectedDispatched ==
  /\ [][RootTick /\ running /\ iteration < max_planner_iterations =>
          ( injected_tasks' = <<>>
            /\ \A k \in 1..Len(injected_tasks) :
                 injected_tasks[k].id \in dispatched_ids' )]_vars
  /\ [](pc = "done" => injected_tasks = <<>>)

\* The handoff that coroutine i delivers in the step that finishes it.
Delivered(i) ==
  IF procs[i].parent = 0
  THEN pending_handoffs'[Len(pending_handoffs')][2]
  ELSE procs'[procs[i].parent].pending[Len(procs'[procs[i].parent].pending)][2]

\* C14: when the plan step of a sub-planner has failed 5 consecutive times,
\* decompose_and_execute returns a handoff whose status is failed, also when
\* no subtask had been dispatched before the failures.
C14_AbortedDecompositionFails ==
  [][ \A i \in 1..Len(procs) :
        ( /\ procs[i].st \in {"sp_plan", "sp_wait"}
          /\ procs'[i].st = "finished"
          /\ \/ procs[i].errors >= 5
             \/ (procs[i].errors = 4 /\ SpPlanFail(i)) )
        => Delivered(i).status = "failed" ]_vars

C19_NoDuplicateDispatch ==
  /\ \A j, k \in 1..Len(all_tasks) : all_tasks[j].id = all_tasks[k].id => j = k
  /\ \A j, k \in 1..Len(procs) :
       (procs[j].parent = 0 /\ procs[k].parent = 0
        /\ procs[j].task.id = procs[k].task.id) => j = k
  /\ { all_tasks[k].id : k \in 1..Len(all_tasks) } = dispatched_ids

\* The reconciler injected a fix task with the id "t1" of the one task the
\* planner had dispatched, and a tick has skipped it.
C19_Witness ==
  /\ fix_counter = 1
  /\ injected_tasks = <<>>
  /\ Len(all_tasks) = 1
  /\ all_tasks[1].id = "t1" /\ all_tasks[1].scope = BigScope
  /\ Len(procs) >= 1 /\ \A k \in 1..Len(procs) : procs[k].parent = 0 => k = 1

\* C11: no worker call, on the first attempt or on the rate-limit retry,
\* writes a file whose extension is in the asset set: every file operation
\* with an asset extension is skipped, and the other file operations of the
\* same response are still written.
C11_NoAssetWritten ==
  /\ \A f \in written : Extension(f) \notin ASSET_EXTENSIONS
  /\ (wpc = "returned" /\ first_error # WriteError /\ retry_error # WriteError) =>
       \A k \in 1..Len(applied) :
         IF Extension(applied[k]) \in ASSET_EXTENSIONS
         THEN applied[k] \in blocked
         ELSE Target(applied[k]) \in written

\* C15: a worker call issues at most two LLM calls; it retries exactly once,
\* and only when the first call signalled a rate limit; when the retry fails
\* for any reason, or the first call fails for another reason, execute_task
\* returns a failed handoff carrying the error in concerns and raises nothing.
C15_AtMostOneRetry ==
  /\ llm_calls <= 2
  /\ llm_calls = 2 => first_error.type = "RateLimitError"
  /\ (wpc = "returned" /\ first_error.type = "RateLimitError") => llm_calls = 2
  /\ wpc = "raised" => llm_calls = 0
  /\ ( /\ wpc \in {"returned", "raised"}
       /\ \/ retry_error # NoError
          \/ (first_error # NoError /\ first_error.type # "RateLimitError") )
     => /\ wpc = "returned"
        /\ whandoff.task_id = WTaskId
        /\ whandoff.status = "failed"
        /\ InSeq((IF retry_error # NoError THEN retry_error ELSE first_error).msg,
                 whandoff.concerns)

\* The first call was rate limited and the retry raised as well: two LLM
\* calls, and the failure handoff of the retry returned.
C15_Witness ==
  /\ wpc = "returned"
  /\ llm_calls = 2
  /\ first_error = RateLimitError
  /\ retry_error \in {RateLimitError, APIError}
  /\ whandoff.status = "failed"

\* C16: every handoff with status failed that the engine records has at
\* least one entry in concerns.
C16_FailedHasConcerns ==
  (wpc = "returned" /\ whandoff.status = "failed") => whandoff.concerns # <<>>

\* C17: each path in files_changed of a handoff returned by execute_task is
\* a path this worker call wrote; a path rejected as an asset, or only named
\* by the LLM without a written file operation, is not listed.
C17_FilesChangedWereWritten ==
  wpc = "returned" =>
    \A k \in 1..Len(whandoff.files_changed) :
      /\ whandoff.files_changed[k] \in written
      /\ whandoff.files_changed[k] \notin blocked

\* C20: emit always completes; a queue with room receives the event at its
\* tail, a queue that already holds 1000 events is left unchanged (the event
\* is dropped for that subscriber only), no queue ever holds more than 1000
\* events, and what each subscriber receives is a subsequence of the emitted
\* events in their order.
C20_EmitBounded ==
  /\ [](\A i \in 1..Len(subscribers) :
          LET got == subscribers[i].received \o subscribers[i].queue
          IN /\ Len(subscribers[i].queue) <= 1000
             /\ \A k \in 1..Len(got) : got[k] \in 1..emitted
             /\ \A k \in 1..(Len(got) - 1) : got[k] < got[k+1])
  /\ [][Emit =>
          /\ emitted' = emitted + 1
          /\ Len(subscribers') = Len(subscribers)
          /\ \A i \in 1..Len(subscribers) :
               /\ subscribers'[i].received = subscribers[i].received
               /\ subscribers'[i].queue =
                    IF Len(subscribers[i].queue) < 1000
                    THEN Append(subscribers[i].queue, emitted + 1)
                    ELSE subscribers[i].queue]_vars

\* One subscriber's queue holds 1000 events and has dropped one, while a
\* later subscriber has received an event emitted since.
C20_Witness ==
  /\ Len(subscribers) = 2
  /\ Len(subscribers[1].queue) = 1000
  /\ subscribers[1].queue[1000] < emitted
  /\ subscribers[2].queue # <<>>
  /\ subscribers[2].queue[Len(subscribers[2].queue)] = emitted

\* C27: the root planner marks planning done only at a plan that returned no
\* task while no task was active, and then only on the first plan, or with a
\* source file in the output directory, or after 3 nudges; planning is never
\* marked done, and the main loop never left as done, while a dispatched
\* task is still active.
C27_DoneOnlyWhenQuiet ==
  /\ [][ (planning_done' /\ ~planning_done) =>
           /\ active_tasks = {}
           /\ active_tasks' = {}
           /\ \E raw \in RootPlans :
                /\ PlanReturn(raw)
                /\ BuildTasksFromRaw(raw, task_counter, dispatched_ids).tasks = <<>>
           /\ \/ iteration' = 1
              \/ \E f \in files : Extension(f) \in SOURCE_EXTENSIONS
              \/ empty_plan_nudges >= 3 ]_vars
  /\ [][ (exit_reason' = "done" /\ exit_reason # "done") =>
           (planning_done' /\ active_tasks' = {}) ]_vars

\* A later plan than the first returned nothing while nothing was active and
\* a worker had written main.py: planning is done with no nudge issued.
C27_Witness ==
  /\ planning_done
  /\ exit_reason = "done"
  /\ iteration > 1
  /\ MainPy \in files
  /\ empty_plan_nudges = 0
  /\ active_tasks = {}

\* The status the aggregate of a decomposed parent should carry, from the
\* statuses of the handoffs its children produced.
StatusOfChildren(hs) ==
  IF \A k \in 1..Len(hs) : hs[k].status = "complete" THEN "complete"
  ELSE IF \A k \in 1..Len(hs) : hs[k].status = "failed" THEN "failed"
  ELSE IF \E k \in 1..Len(hs) : hs[k].status = "complete" THEN "partial"
  ELSE "blocked"

\* C28: the aggregate handoff returned for a decomposed parent is complete
\* exactly when every child handoff is complete, failed exactly when every
\* child handoff is failed, partial when some but not all are complete, and
\* blocked otherwise; the child handoffs are those the children have produced
\* when the parent returns, collected or still in its pending list.
C28_AggregateStatus ==
  [][ \A i \in 1..Len(procs) :
        LET hs == procs[i].all_handoffs \o HandoffsOf(procs[i].pending)
        IN ( /\ procs[i].st \in {"sp_loop", "sp_plan", "sp_wait"}
             /\ procs'[i].st = "finished"
             /\ hs # <<>> )
           => Delivered(i).status = StatusOfChildren(hs) ]_vars

\* C29: of several tasks with the same id in one planning response exactly
\* the first is dispatched, so no two running tasks of the same planner (the
\* root planner, or the sub-planner of one parent) ever share an id.
C29_NoSharedRunningId ==
  \A i, j \in 1..Len(procs) :
    ( /\ i < j
      /\ procs[i].parent = procs[j].parent
      /\ procs[i].st # "finished"
      /\ procs[j].st # "finished" )
    => procs[i].task.id # procs[j].task.id

\* `[f for f in scope if f in parent_scope]`
Intersection(scope, parent_scope) ==
  SelectSeq(scope, LAMBDA f : InSeq(f, parent_scope))

\* C30: every subtask a sub-planner dispatches has a non-empty scope, equal to
\* the intersection of the scope one raw subtask of the response proposed with
\* the parent's scope; so a raw subtask whose scope does not meet the parent's,
\* one proposed with no scope included, is dropped and never dispatched.
C30_DispatchedScopeIsIntersection ==
  [][ \A i \in 1..Len(procs) : \A raw \in SubPlans :
        SpPlanReturn(i, raw) =>
          \A k \in (Len(procs) + 1)..Len(procs') :
            /\ procs'[k].task.scope # <<>>
            /\ \E r \in 1..Len(raw) :
                 procs'[k].task.scope =
                   Intersection(raw[r].scope, procs[i].task.scope) ]_vars

\* C21: when the reconciler is disabled in the configuration, no reconciler
\* sweep is ever executed during the run and no fix task is ever injected
\* into the planner.
C21_DisabledNeverSweeps ==
  ~reconciler_enabled =>
    /\ sweeps = 0
    /\ fix_counter = 0
    /\ injected_tasks = <<>>

\* A run without reconciler in which a worker has written a file while the
\* planner loops and no disruption has happened: a sweep of a started
\* reconciler could run here.
C21_Witness ==
  /\ ~reconciler_enabled
  /\ files # {}
  /\ pc \in {"loop", "plan", "wait"}
  /\ Settled
  /\ Disrupt
  /\ Load + 2 <= MaxLoad

\* C23: for every response text parse_worker_response returns a WorkerResult
\* without raising, whatever the shape of the decoded JSON (a handoff that is
\* not an object, a files_changed that is null).
C23_ParseNeverRaises == presult # NotParsed => ~presult.raised

\* C24: when the response text cannot be decoded as JSON as sent (literal
\* newlines inside the content string, closing tokens missing at its end),
\* the worker's result has status partial and a concern saying the response
\* was malformed if file operations were recovered, and status failed if none
\* was.
C24_DamagedIsPartialOrFailed ==
  ( /\ presult # NotParsed
    /\ ~presult.raised
    /\ pdamage.literal \/ pdamage.cut > 0 )
  => IF presult.file_operations # <<>>
     THEN /\ presult.status = "partial"
          /\ InSeq(MalformedConcern, presult.concerns)
     ELSE presult.status = "failed"

\* C25: for every well-formed worker result (a handoff with a status, and file
\* operations whose content is an arbitrary string, markdown fences included)
\* parse_worker_response applied to its JSON serialization returns exactly its
\* status and its file operations, with no concern added.
C25_ParseOfSerialized ==
  ( /\ presult # NotParsed
    /\ pdamage = Undamaged
    /\ pvalue.handoff \in HandoffStatuses
    /\ pvalue.ops \in {"empty", "one"} )
  => presult = WResult(pvalue.handoff, <<>>,
                       IF pvalue.ops = "one" THEN << FileOp(pvalue.content) >>
                       ELSE <<>>)

\* C26: in every follow-up plan message the new files are exactly the paths
\* of the current tree that are not in the tree recorded at the last
\* successful plan, the removed files exactly the paths of that recorded tree
\* that are not in the current tree, and every path of the symmetric
\* difference of the two trees is in exactly one of the two lists.
C26_DeltaIsSymmetricDifference ==
  (dpc = "calling" /\ diteration > 0) =>
    /\ SeqToSet(new_files) = state_tree \ recorded
    /\ SeqToSet(removed_files) = recorded \ state_tree
    /\ Len(new_files) = Cardinality(SeqToSet(new_files))
    /\ Len(removed_files) = Cardinality(SeqToSet(removed_files))
    /\ \A f \in (state_tree \ recorded) \cup (recorded \ state_tree) :
         InSeq(f, new_files) # InSeq(f, removed_files)

\* A follow-up message that reports both a new and a removed file, with a
\* third file in both trees.
C26_Witness ==
  /\ dpc = "calling"
  /\ diteration > 0
  /\ new_files # <<>>
  /\ removed_files # <<>>
  /\ recorded \cap state_tree # {}

\* C22: the number of successful planning iterations of the root planner in
\* one run never exceeds max_planner_iterations, and the number of successful
\* planning iterations of the sub-planner for one parent never exceeds
\* MAX_SUBPLANNER_ITERATIONS (20).
C22_IterationCaps ==
  /\ iteration <= max_planner_iterations
  /\ \A i \in 1..Len(procs) : procs[i].iteration <= MAX_SUBPLANNER_ITERATIONS

\* A sub-planner that has reached its cap with a fresh handoff to replan on.
C22_Witness ==
  \E i \in 1..Len(procs) :
    /\ procs[i].iteration = MAX_SUBPLANNER_ITERATIONS
    /\ procs[i].st = "sp_loop"
    /\ procs[i].pending # <<>>

\* C31: a sub-planner whose first plan yielded no dispatchable subtask hands
\* the parent task to one worker call and returns that worker's handoff: from
\* that plan on the coroutine is inside execute_task(parent_task), waiting for
\* a slot or in the call, and it plans no further; an empty plan of a later
\* iteration starts no worker call for the parent.
C31_AtomicFallback ==
  \A i \in 1..Len(procs) :
    /\ (procs[i].iteration >= 1 /\ procs[i].subtasks = <<>>)
         => (procs[i].atomic /\ procs[i].st \in {"running", "waiting"})
    /\ procs[i].atomic => procs[i].iteration = 1

\* C32: when write_text fails on one file operation of a response, only that
\* operation is skipped: every other operation of the response that is not an
\* asset is written, and the handoff returned is the one parsed from the
\* response (or a partial one), not the failure handoff built from the error.
C32_WriteFailureSkipsOne ==
  (wpc = "returned" /\ WriteError \in {first_error, retry_error}) =>
    /\ \E k \in 1..Len(applied) :
         \A j \in (1..Len(applied)) \ {k} :
           IsAssetFile(applied[j]) \/ Target(applied[j]) \in written
    /\ whandoff # WFailureHandoff(WTaskId, WriteError)

\* C33: the root planner gives up on errors exactly when 10 plan calls in a
\* row have failed, and issues no plan call afterwards; a plan call that
\* returns resets the count of consecutive failures to 0; the backoff after
\* the k-th consecutive failure, k < 10, is min(2 * 2^(k-1), 30) seconds.
C33_BackoffAndAbort ==
  /\ [](/\ consecutive_errors <= 10
        /\ (exit_reason = "errors") <=> (consecutive_errors = 10)
        /\ consecutive_errors = 10 => pc \in {"wait", "done"}
        /\ consecutive_errors \in 1..9 =>
             backoff_s = IF 2 * 2 ^ (consecutive_errors - 1) < 30
                         THEN 2 * 2 ^ (consecutive_errors - 1) ELSE 30)
  /\ [][ /\ (\E raw \in RootPlans : PlanReturn(raw)) => consecutive_errors' = 0
         /\ consecutive_errors = 10 => plan_calls' = plan_calls
         /\ consecutive_errors' # consecutive_errors =>
              consecutive_errors' \in {0, consecutive_errors + 1} ]_vars

\* The run that gave up on errors after a plan call had succeeded.
C33_Witness ==
  /\ exit_reason = "errors"
  /\ consecutive_errors = 10
  /\ iteration > 0
  /\ backoff_s = 30

\* C34: when the conversation a plan call is about to send holds more than
\* 200,000 characters, compaction makes it the system message, the first user
\* message, one summary message and then the last 10 messages of the
\* conversation as it was, in their order: the system message occurs once, as
\* the first message, and the result is no longer than the conversation was;
\* a conversation of at most 200,000 characters is sent as it is.
C34_CompactionShape ==
  cpc = "calling" =>
    IF TotalChars(sent) > 200000
    THEN LET from == IF Len(sent) > 10 THEN Len(sent) - 9 ELSE 1
             last10 == SubSeq(sent, from, Len(sent))
         IN /\ Len(conversation) = 3 + Len(last10)
            /\ conversation[1] = sent[1]
            /\ conversation[2] = sent[2]
            /\ conversation[3].content.text = "context_compacted"
            /\ SubSeq(conversation, 4, Len(conversation)) = last10
            /\ conversation[1].role = "system"
            /\ Cardinality({ k \in 1..Len(conversation) :
                               conversation[k].role = "system" }) = 1
            /\ Len(conversation) <= Len(sent)
    ELSE conversation = sent

\* C37: a plan call that raised leaves the planning state as it was when
\* the call was entered: the conversation has gained no message, so user and
\* assistant messages still alternate in it, and a nudge that was pending
\* is still pending.
C37_FailedPlanLeavesState ==
  (cpc = "idle" /\ outcome = "raised") =>
    /\ conversation = entered.conversation
    /\ conv_nudge_pending = entered.nudge_pending
    /\ \A k \in 1..(Len(conversation) - 1) :
         ~(conversation[k].role = "user" /\ conversation[k+1].role = "user")

\* The handoffs passed to _aggregate_handoffs in the step that returns the
\* aggregate of coroutine i: the straggler loop ends without a collect, every
\* other way out passes through the final drain.
Aggregated(i) ==
  IF procs[i].st = "sp_wait" THEN procs[i].all_handoffs
  ELSE procs[i].all_handoffs \o HandoffsOf(procs[i].pending)

\* C35: when decompose_and_execute returns its aggregate, every subtask it
\* dispatched has finished (none is still running or able to write files),
\* and the aggregate is built from exactly one child handoff per dispatched
\* subtask.
C35_AggregateAfterAllChildren ==
  [][ \A i \in 1..Len(procs) :
        (procs[i].st \in {"sp_loop", "sp_plan", "sp_wait"}
           /\ procs'[i].st = "finished") =>
          /\ \A k \in 1..Len(procs) :
               procs[k].parent = i => procs'[k].st = "finished"
          /\ Len(Aggregated(i)) = Len(procs[i].subtasks)
          /\ \A t \in 1..Len(procs[i].subtasks) :
               CountFor(Aggregated(i), procs[i].subtasks[t].id)
                 = Cardinality({ u \in 1..Len(procs[i].subtasks) :
                                   procs[i].subtasks[u].id = procs[i].subtasks[t].id })
    ]_vars

\* C36: the slot a call of execute_task took is given back when the call
\* ends, whether it returned a handoff (at once, after a failure, or after the
\* rate-limit retry) or raised; while the call is in progress, the 10-second
\* wait before the retry included, it holds exactly one slot.  So with no call
\* in progress active_count is 0 and all max_workers slots are free.
C36_SlotReleased ==
  /\ wpc \in {"idle", "returned", "raised"} =>
       (active_count = 0 /\ semaphore = max_workers)
  /\ wpc \in {"call1", "backoff", "call2"} =>
       (active_count = 1 /\ semaphore = max_workers - 1)

\* A call that was rate limited, waited holding its slot, failed again on its
\* retry and ended.
C36_Witness ==
  /\ wpc = "returned"
  /\ first_error = RateLimitError
  /\ retry_error # NoError
  /\ llm_calls = 2
  /\ semaphore = max_workers

\* C38: a subtask proposed without an id gets an identifier that no subtask
\* dispatched under the same parent carries, so none is discarded as a
\* duplicate: of a plan whose raw tasks all come without id, every one with a
\* non-blank description and a scope inside the parent's is built, in any
\* iteration.
C38_IdlessNeverDuplicate ==
  LET eligible == { k \in 1..Len(sub_raw) :
                      /\ sub_raw[k].id = ""
                      /\ ~IsBlank(sub_raw[k].description)
                      /\ sub_raw[k].scope # <<>>
                      /\ \A f \in 1..Len(sub_raw[k].scope) :
                           InSeq(sub_raw[k].scope[f], IdsParent.scope) }
  IN (\A k \in 1..Len(sub_raw) : sub_raw[k].id = "")
       => Len(sub_built) = Cardinality(eligible)

\* C39: every task_started event the worker pool emits for a task is
\* followed, sooner or later, by a task_completed event for the same task id,
\* whether the worker call succeeds, fails, or succeeds on its retry.
C39_StartedThenCompleted ==
  \A k \in 1..2 :
    (Len(wevents) >= k /\ wevents[k].type = "task_started")
      ~> (\E j \in 1..Len(wevents) :
            /\ j > k
            /\ wevents[j].type = "task_completed"
            /\ wevents[j].task_id = wevents[k].task_id)


====
